---------------------------- MODULE Spec2Model ----------------------------
(***************************************************************************)
(* Automation rule engine of the Sunroom2 firmware: the UnifiedValue type, *)
(* the registry handlers of the rule language, the recursive evaluator,    *)
(* the relay setter and the rule-set driver.                               *)
(*                                                                         *)
(* Representation.                                                         *)
(*  - A C++ float x is the integer FloatUnit * x (halves), which is exact  *)
(*    for every number the rules and sensor snapshots below contain.       *)
(*  - A string is a sequence of one-character strings, so that prefix      *)
(*    tests, atoi and the time-literal parser work on characters.          *)
(*  - A JSON value is a record [j, v]: j is the JSON kind, v the payload.  *)
(*  - The evaluator threads a record m through the recursion: the relay    *)
(*    array it writes, the sensor snapshot it reads, and two logs that the *)
(*    properties read: calls (every setter invocation, in order) and trace *)
(*    (every completed sub-evaluation with its path and its value).        *)
(*  - tasks holds, for each of the two tasks of the firmware, its position *)
(*    and its locals; only the interleaving specification moves it.        *)
(***************************************************************************)
EXTENDS Integers, Sequences, FiniteSets, TLC

VARIABLES RELAY_VALUES, RELAY_RULES, sensors, enumRepr, loopIndex,
          requests, passStart, passLog, last, expr, tasks

vars == <<RELAY_VALUES, RELAY_RULES, sensors, enumRepr, loopIndex,
          requests, passStart, passLog, last, expr, tasks>>

\* ---------------------------------------------------------------- bounds
RelayCount == 2

MaxRequests == 2

\* ------------------------------------------------------- number helpers
FloatUnit == 2

\* C++ integer division and remainder truncate toward zero.
CDiv(a, b) == IF a >= 0 THEN a \div b ELSE -((-a) \div b)

CRem(a, b) == a - b * CDiv(a, b)

\* static_cast<int>(float): truncation toward zero of a value in halves.
floatToInt(h) == CDiv(h, FloatUnit)

\* ------------------------------------------------------- string helpers
DigitChars == <<"0", "1", "2", "3", "4", "5", "6", "7", "8", "9">>

isDigit(c) == \E k \in 1..10 : DigitChars[k] = c

digitValue(c) == (CHOOSE k \in 1..10 : DigitChars[k] = c) - 1

\* std::string::rfind(prefix, 0) == 0
startsWith(s, prefix) ==
    /\ Len(s) >= Len(prefix)
    /\ SubSeq(s, 1, Len(prefix)) = prefix

RECURSIVE atoiDigits(_, _)
atoiDigits(s, acc) ==
    IF s = <<>> \/ ~isDigit(Head(s)) THEN acc
    ELSE atoiDigits(Tail(s), acc * 10 + digitValue(Head(s)))

RECURSIVE atoi(_)
atoi(s) ==
    IF s = <<>> THEN 0
    ELSE IF Head(s) = " " THEN atoi(Tail(s))
    ELSE IF Head(s) = "-" THEN -atoiDigits(Tail(s), 0)
    ELSE IF Head(s) = "+" THEN atoiDigits(Tail(s), 0)
    ELSE atoiDigits(s, 0)

relayPrefix == <<"r", "e", "l", "a", "y", "_">>

\* std::to_string(i) for the relay indices the driver builds names from.
RECURSIVE to_string(_)
to_string(i) ==
    IF i < 10 THEN <<DigitChars[i + 1]>>
    ELSE to_string(i \div 10) \o <<DigitChars[(i % 10) + 1]>>

\* ------------------------------------------------------- time literals
jsonIsTimeLiteral(s) == s # <<>> /\ s[1] = "@"

\* parseTimeLiteral whose hour check is off by one.
parseTimeLiteral_hours24(timeStr) ==
    IF Len(timeStr) # 9 THEN -1
    ELSE IF timeStr[1] # "@" \/ timeStr[4] # ":" \/ timeStr[7] # ":" THEN -1
    ELSE IF \E k \in {2, 3, 5, 6, 8, 9} : ~isDigit(timeStr[k]) THEN -1
    ELSE LET hours   == digitValue(timeStr[2]) * 10 + digitValue(timeStr[3])
             minutes == digitValue(timeStr[5]) * 10 + digitValue(timeStr[6])
             seconds == digitValue(timeStr[8]) * 10 + digitValue(timeStr[9])
         IN  IF hours < 0 \/ hours > 24 THEN -1
             ELSE IF minutes < 0 \/ minutes > 59 THEN -1
             ELSE IF seconds < 0 \/ seconds > 59 THEN -1
             ELSE (hours * 3600) + (minutes * 60) + seconds

parseTimeLiteral(timeStr) ==
    IF Len(timeStr) # 9 THEN -1
    ELSE IF timeStr[1] # "@" \/ timeStr[4] # ":" \/ timeStr[7] # ":" THEN -1
    ELSE IF \E k \in {2, 3, 5, 6, 8, 9} : ~isDigit(timeStr[k]) THEN -1
    ELSE LET hours   == digitValue(timeStr[2]) * 10 + digitValue(timeStr[3])
             minutes == digitValue(timeStr[5]) * 10 + digitValue(timeStr[6])
             seconds == digitValue(timeStr[8]) * 10 + digitValue(timeStr[9])
         IN  IF hours < 0 \/ hours > 23 THEN -1
             ELSE IF minutes < 0 \/ minutes > 59 THEN -1
             ELSE IF seconds < 0 \/ seconds > 59 THEN -1
             ELSE (hours * 3600) + (minutes * 60) + seconds

\* ------------------------------------------------------- UnifiedValue
\* fn is <<>> when the value holds no setter and <<index>> for the setter
\* std::bind(setRelay, index, _1).
\* s is the text of a string value and <<>> for every other kind.
mkValue(type, errorCode, n, fn) ==
    [type |-> type, errorCode |-> errorCode, n |-> n, fn |-> fn, s |-> <<>>]

\* UnifiedValue(const char*) and UnifiedValue(const std::string&).
StringValue(text) ==
    [type |-> "STRING_TYPE", errorCode |-> "NO_ERROR", n |-> 0, fn |-> <<>>, s |-> text]

\* strtof on the texts of this model: blanks, an optional sign, and either
\* decimal digits with an optional fraction of one digit 0 or 5, or one of
\* the words inf and infinity in lower case (exponents, longer fractions,
\* hexadecimal and nan are not among them).  The result is the value in
\* units of 1/FloatUnit and the text left unread; nothing is read
\* (rest = str) when no number follows the sign.
skipBlanks(str) ==
    LET blanks == {k \in 0..Len(str) : \A l \in 1..k : str[l] = " "}
        n      == CHOOSE k \in blanks : \A l \in blanks : l <= k
    IN  SubSeq(str, n + 1, Len(str))

digitPrefix(str) ==
    LET ds == {k \in 0..Len(str) : \A l \in 1..k : isDigit(str[l])}
    IN  CHOOSE k \in ds : \A l \in ds : l <= k

\* The three stages of strtof after the blanks: the sign, the digits, and
\* the fraction.
strtofFraction(str, sign, whole, nd, after) ==
    IF Len(after) >= 2 /\ after[1] = "." /\ (after[2] = "0" \/ after[2] = "5")
    THEN [result |-> sign * (whole * FloatUnit
                             + (IF after[2] = "5" THEN FloatUnit \div 2 ELSE 0)),
          rest   |-> SubSeq(after, 3, Len(after))]
    ELSE IF nd = 0 THEN [result |-> 0, rest |-> str]
    ELSE IF after # <<>> /\ after[1] = "."
         THEN [result |-> sign * whole * FloatUnit, rest |-> Tail(after)]
    ELSE [result |-> sign * whole * FloatUnit, rest |-> after]

\* The float infinity, larger than every finite value of the model.
INFINITY == 1000000000

sInf == <<"i", "n", "f">>

sInfinity == <<"i", "n", "f", "i", "n", "i", "t", "y">>

strtofDigits(str, sign, num) ==
    IF startsWith(num, sInfinity)
    THEN [result |-> sign * INFINITY, rest |-> SubSeq(num, Len(sInfinity) + 1, Len(num))]
    ELSE IF startsWith(num, sInf)
    THEN [result |-> sign * INFINITY, rest |-> SubSeq(num, Len(sInf) + 1, Len(num))]
    ELSE
    strtofFraction(str, sign, atoiDigits(SubSeq(num, 1, digitPrefix(num)), 0),
                   digitPrefix(num), SubSeq(num, digitPrefix(num) + 1, Len(num)))

strtofSign(str, body) ==
    strtofDigits(str, IF body # <<>> /\ body[1] = "-" THEN -1 ELSE 1,
                 IF body # <<>> /\ (body[1] = "-" \/ body[1] = "+")
                 THEN Tail(body) ELSE body)

strtof(str) == strtofSign(str, skipBlanks(str))

\* The check of endptr left out: what strtof read is the result.
endptrCheck_partial(str, r) == r.result

\* The check of endptr: nothing read, or text left unread, gives 0.
endptrCheck(str, r) ==
    IF r.rest = str \/ r.rest # <<>> THEN 0 ELSE r.result

\* Strict parse: the whole text must be read, else 0.
parseStringAsFloat(str) == endptrCheck(str, strtof(str))

FloatValue(h) == mkValue("FLOAT_TYPE", "NO_ERROR", h, <<>>)

IntValue(i) == mkValue("INT_TYPE", "NO_ERROR", i, <<>>)

createVoid == mkValue("VOID_TYPE", "NO_ERROR", 0, <<>>)

createError(error) == mkValue("ERROR_TYPE", error, 0, <<>>)

createActuator(index) == mkValue("ACTUATOR_TYPE", "NO_ERROR", 0, <<index>>)

asFloat(val) ==
    CASE val.type = "FLOAT_TYPE" -> val.n
      [] val.type = "INT_TYPE"   -> val.n * FloatUnit
      [] val.type = "STRING_TYPE" -> parseStringAsFloat(val.s)
      [] OTHER                   -> 0

\* strtol(str, &endPtr, 10): blanks, an optional sign and decimal digits;
\* nothing is read when no digit follows the sign.
strtolDigits(str, sign, num) ==
    IF digitPrefix(num) = 0 THEN [result |-> 0, rest |-> str]
    ELSE [result |-> sign * atoiDigits(SubSeq(num, 1, digitPrefix(num)), 0),
          rest   |-> SubSeq(num, digitPrefix(num) + 1, Len(num))]

strtol(str) ==
    strtolDigits(str,
                 IF skipBlanks(str) # <<>> /\ skipBlanks(str)[1] = "-" THEN -1 ELSE 1,
                 IF skipBlanks(str) # <<>> /\ skipBlanks(str)[1] \in {"-", "+"}
                 THEN Tail(skipBlanks(str)) ELSE skipBlanks(str))

INT_MAX == 2147483647

INT_MIN == -2147483647 - 1

\* static_cast<int>(float), as the set of values the build can produce: the
\* truncated value, and for a float outside the range of int, where the
\* conversion is undefined, what the conversion instructions of the targets
\* give.
castFloatToInt(h) ==
    IF h >= INFINITY \/ h <= -INFINITY THEN {INT_MIN, INT_MAX}
    ELSE {floatToInt(h)}

isValidZeroFloat(str) == strtof(str).rest # str /\ strtof(str).rest = <<>>

\* parseStringAsInt without its second stage.
parseStringAsInt_integerOnly(str) ==
    IF strtol(str).rest # str /\ strtol(str).rest = <<>>
       /\ strtol(str).result <= INT_MAX /\ strtol(str).result >= INT_MIN
    THEN {strtol(str).result}
    ELSE {0}

\* Two-stage parse, as the set of values the build can produce.
parseStringAsInt(str) ==
    IF strtol(str).rest # str /\ strtol(str).rest = <<>>
       /\ strtol(str).result <= INT_MAX /\ strtol(str).result >= INT_MIN
    THEN {strtol(str).result}
    ELSE IF parseStringAsFloat(str) # 0 \/ isValidZeroFloat(str)
    THEN castFloatToInt(parseStringAsFloat(str))
    ELSE {0}

\* asInt, as the set of values the build can produce.
asInt(val) ==
    CASE val.type = "INT_TYPE"    -> {val.n}
      [] val.type = "FLOAT_TYPE"  -> castFloatToInt(val.n)
      [] val.type = "STRING_TYPE" -> parseStringAsInt(val.s)
      [] OTHER                    -> {0}

\* isNumericType that leaves INT_TYPE out.
isNumericType_floatOnly(val) == val.type = "FLOAT_TYPE"

isNumericType(val) == val.type = "FLOAT_TYPE" \/ val.type = "INT_TYPE"

\* operator== without the string case: every pair is compared as floats.
valueEquals_numericOnly(a, b) ==
    IF a.type = "ERROR_TYPE" \/ b.type = "ERROR_TYPE" THEN FALSE
    ELSE asFloat(a) = asFloat(b)

\* UnifiedValue::operator== for the kinds evaluation produces.
valueEquals(a, b) ==
    IF a.type = "ERROR_TYPE" \/ b.type = "ERROR_TYPE" THEN FALSE
    ELSE IF a.type = "STRING_TYPE" /\ b.type = "STRING_TYPE" THEN a.s = b.s
    ELSE asFloat(a) = asFloat(b)

\* ------------------------------------------------------- relay array
FORCE_OFF_AUTO_X == 20

FORCE_ON_AUTO_X == 21

FORCE_X_AUTO_X == 22

\* Largest value in the range of enumeration values of RelayValue: the
\* enumerators need five bits.
RelayValueRangeMax == 31

\* static_cast<RelayValue>(newValue).  Inside the range of the enumeration
\* the value is unchanged.  Outside it the conversion is undefined; what is
\* stored depends on the underlying type the build gave the enumeration:
\* an int keeps the value, an 8-bit type (short enums) keeps it modulo 256.
castRelayValue(newValue, repr) ==
    IF newValue >= 0 /\ newValue <= RelayValueRangeMax THEN newValue
    ELSE IF repr = "int" THEN newValue
    ELSE newValue % 256

forceDigit(relayValue) == CRem(relayValue, 10)

autoIntent(relayValue) == CDiv(relayValue, 10)

\* ------------------------------------------------------- JSON values
JInt(k) == [j |-> "int", v |-> k]

JFloat(h) == [j |-> "float", v |-> h]

JBool(b) == [j |-> "bool", v |-> b]

JStr(s) == [j |-> "string", v |-> s]

JNull == [j |-> "null", v |-> 0]

JArr(a) == [j |-> "array", v |-> a]

\* ------------------------------------------------------- function names
nGT == <<"G", "T">>

nLT == <<"L", "T">>

nEQ == <<"E", "Q">>

nNE == <<"N", "E">>

nGTE == <<"G", "T", "E">>

nLTE == <<"L", "T", "E">>

nAND == <<"A", "N", "D">>

nOR == <<"O", "R">>

nNOT == <<"N", "O", "T">>

nIF == <<"I", "F">>

nSET == <<"S", "E", "T">>

nNOP == <<"N", "O", "P">>

ngetTemperature == <<"g", "e", "t", "T", "e", "m", "p", "e", "r", "a", "t", "u", "r", "e">>

ngetHumidity == <<"g", "e", "t", "H", "u", "m", "i", "d", "i", "t", "y">>

ngetPhotoSensor == <<"g", "e", "t", "P", "h", "o", "t", "o", "S", "e", "n", "s", "o", "r">>

ngetLightSwitch == <<"g", "e", "t", "L", "i", "g", "h", "t", "S", "w", "i", "t", "c", "h">>

ngetCurrentTime == <<"g", "e", "t", "C", "u", "r", "r", "e", "n", "t", "T", "i", "m", "e">>

\* ------------------------------------------------------- setters
\* setRelay(index, value) on the array; an index outside the array is left
\* to invokeSetter, which records the out-of-bounds write.
setRelay(relays, repr, index, value) ==
    IF index \notin DOMAIN relays THEN relays
    ELSE LET currentValue == relays[index]
             intVal       == floatToInt(value)
             onesDigit    == CRem(currentValue, 10)
             newValue     == (intVal * 10) + onesDigit
         IN  [relays EXCEPT ![index] = castRelayValue(newValue, repr)]

\* env.tryGetActuator of processAutomationDsl.
tryGetActuator(name) ==
    IF startsWith(name, relayPrefix)
    THEN [found |-> TRUE,
          index |-> atoi(SubSeq(name, Len(relayPrefix) + 1, Len(name)))]
    ELSE [found |-> FALSE, index |-> 0]

\* One invocation of a bound setter: the write, and its entry in the call
\* log (who called, on which relay, with which value, and the stored value
\* before and after).
invokeSetter(m, index, value, src, path) ==
    LET after == setRelay(m.relays, m.repr, index, value)
        inArr == index \in DOMAIN m.relays
    IN  [m EXCEPT !.relays = after,
                  !.oob    = @ \/ ~inArr,
                  !.calls  = Append(@, [index  |-> index,
                                        value  |-> value,
                                        src    |-> src,
                                        path   |-> path,
                                        before |-> IF inArr THEN m.relays[index] ELSE 0,
                                        after  |-> IF inArr THEN after[index] ELSE 0])]

Ret(val, m) == [val |-> val, m |-> m]

boolValue(b) == FloatValue(IF b THEN FloatUnit ELSE 0)

\* ------------------------------------------------------- sensor functions
getTemperature(m) == m.sensors.CURRENT_TEMPERATURE

getHumidity(m) == m.sensors.CURRENT_HUMIDITY

getPhotoSensor(m) == m.sensors.LIGHT_LEVEL

getLightSwitch(m) == m.sensors.IS_SWITCH_ON * FloatUnit

getCurrentSeconds(m) == m.sensors.seconds

\* The std::function sensor arguments, by name.
callSensor(sensor, m) ==
    CASE sensor = "getTemperature" -> getTemperature(m)
      [] sensor = "getHumidity"    -> getHumidity(m)
      [] sensor = "getPhotoSensor" -> getPhotoSensor(m)
      [] sensor = "getLightSwitch" -> getLightSwitch(m)
      [] sensor = "getCurrentSeconds" -> getCurrentSeconds(m) * FloatUnit

\* validateZeroArgSensor without the check of the number of elements.
validateZeroArgSensor_anyArity(args, path, m, sensor) ==
    Ret(FloatValue(callSensor(sensor, m)),
        [m EXCEPT !.reads = Append(@, [sensor |-> sensor, path |-> path])])

\* m.reads logs the calls of sensor().
validateZeroArgSensor(args, path, m, sensor) ==
    IF Len(args) # 1 THEN Ret(createError("UNREC_FUNC_ERROR"), m)
    ELSE Ret(FloatValue(callSensor(sensor, m)),
             [m EXCEPT !.reads = Append(@, [sensor |-> sensor, path |-> path])])

functionGetTemperature(args, path, m) ==
    validateZeroArgSensor(args, path, m, "getTemperature")

functionGetHumidity(args, path, m) ==
    validateZeroArgSensor(args, path, m, "getHumidity")

functionGetPhotoSensor(args, path, m) ==
    validateZeroArgSensor(args, path, m, "getPhotoSensor")

functionGetLightSwitch(args, path, m) ==
    validateZeroArgSensor(args, path, m, "getLightSwitch")

functionGetCurrentTime(args, path, m) ==
    validateZeroArgSensor(args, path, m, "getCurrentSeconds")

\* ------------------------------------------------------- registry
registerCoreFunctions(registry) ==
    (nGT :> "functionGT" @@ nLT :> "functionLT" @@ nEQ :> "functionEQ" @@
     nNE :> "functionNE" @@ nGTE :> "functionGTE" @@ nLTE :> "functionLTE" @@
     nAND :> "functionAND" @@ nOR :> "functionOR" @@ nNOT :> "functionNOT" @@
     nIF :> "functionIF" @@ nSET :> "functionSET" @@ nNOP :> "functionNOP")
    @@ registry

registerBridgeFunctions(registry) ==
    (ngetTemperature :> "functionGetTemperature" @@
     ngetHumidity :> "functionGetHumidity" @@
     ngetPhotoSensor :> "functionGetPhotoSensor" @@
     ngetLightSwitch :> "functionGetLightSwitch" @@
     ngetCurrentTime :> "functionGetCurrentTime")
    @@ registry

EmptyRegistry == [name \in {} |-> ""]

registerFunctions(registry) ==
    registerBridgeFunctions(registerCoreFunctions(registry))

\* ------------------------------------------------------- evaluator
RECURSIVE processRuleCore(_, _, _)

\* args[k] of the C++ code is args[k + 1] here; the path of operand k of
\* the call at path is Append(path, k).
operand(args, k, path, m) == processRuleCore(args[k + 1], Append(path, k), m)

\* The lambdas the comparison handlers and functionNOT pass, by name.
callComparison(comparison, a, b) ==
    CASE comparison = ">"  -> a > b
      [] comparison = "<"  -> a < b
      [] comparison = ">=" -> a >= b
      [] comparison = "<=" -> a <= b

callOperation(operation, a) ==
    CASE operation = "!" -> IF ~(a > 0) THEN FloatUnit ELSE 0

\* validateBinaryNumeric that looks at the second operand's error before the
\* first operand's.
validateBinaryNumeric_rightFirst(args, path, m, comparison) ==
    IF Len(args) # 3 THEN Ret(createError("COMPARISON_TYPE_ERROR"), m)
    ELSE LET a == operand(args, 1, path, m)
             b == operand(args, 2, path, a.m)
         IN  IF b.val.type = "ERROR_TYPE" THEN b
             ELSE IF a.val.type = "ERROR_TYPE" THEN Ret(a.val, b.m)
             ELSE IF ~isNumericType(a.val) \/ ~isNumericType(b.val)
                  THEN Ret(createError("COMPARISON_TYPE_ERROR"), b.m)
             ELSE Ret(boolValue(callComparison(comparison, asFloat(a.val), asFloat(b.val))), b.m)

validateBinaryNumeric(args, path, m, comparison) ==
    IF Len(args) # 3 THEN Ret(createError("COMPARISON_TYPE_ERROR"), m)
    ELSE LET a == operand(args, 1, path, m)
             b == operand(args, 2, path, a.m)
         IN  IF a.val.type = "ERROR_TYPE" THEN Ret(a.val, b.m)
             ELSE IF b.val.type = "ERROR_TYPE" THEN b
             ELSE IF ~isNumericType(a.val) \/ ~isNumericType(b.val)
                  THEN Ret(createError("COMPARISON_TYPE_ERROR"), b.m)
             ELSE Ret(boolValue(callComparison(comparison, asFloat(a.val), asFloat(b.val))), b.m)

validateUnaryNumeric(args, path, m, operation) ==
    IF Len(args) # 2 THEN Ret(createError("NOT_ERROR"), m)
    ELSE LET a == operand(args, 1, path, m)
         IN  IF a.val.type = "ERROR_TYPE" THEN a
             ELSE IF ~isNumericType(a.val) THEN Ret(createError("NOT_ERROR"), a.m)
             ELSE Ret(FloatValue(callOperation(operation, asFloat(a.val))), a.m)

functionGT(args, path, m) ==
    validateBinaryNumeric(args, path, m, ">")

functionLT(args, path, m) ==
    validateBinaryNumeric(args, path, m, "<")

functionGTE(args, path, m) ==
    validateBinaryNumeric(args, path, m, ">=")

functionLTE(args, path, m) ==
    validateBinaryNumeric(args, path, m, "<=")

functionEQ(args, path, m) ==
    IF Len(args) # 3 THEN Ret(createError("COMPARISON_TYPE_ERROR"), m)
    ELSE LET a == operand(args, 1, path, m)
             b == operand(args, 2, path, a.m)
         IN  IF a.val.type = "ERROR_TYPE" THEN Ret(a.val, b.m)
             ELSE IF b.val.type = "ERROR_TYPE" THEN b
             ELSE Ret(boolValue(valueEquals(a.val, b.val)), b.m)

functionNE(args, path, m) ==
    IF Len(args) # 3 THEN Ret(createError("COMPARISON_TYPE_ERROR"), m)
    ELSE LET a == operand(args, 1, path, m)
             b == operand(args, 2, path, a.m)
         IN  IF a.val.type = "ERROR_TYPE" THEN Ret(a.val, b.m)
             ELSE IF b.val.type = "ERROR_TYPE" THEN b
             ELSE Ret(boolValue(~valueEquals(a.val, b.val)), b.m)

\* functionAND without the check of the kinds of its operands.
functionAND_unchecked(args, path, m) ==
    IF Len(args) # 3 THEN Ret(createError("AND_OR_ERROR"), m)
    ELSE LET a == operand(args, 1, path, m)
         IN  IF a.val.type = "ERROR_TYPE" THEN a
             ELSE IF ~(asFloat(a.val) > 0) THEN Ret(FloatValue(0), a.m)
             ELSE LET b == operand(args, 2, path, a.m)
                  IN  IF b.val.type = "ERROR_TYPE" THEN b
                      ELSE Ret(boolValue(asFloat(a.val) > 0 /\ asFloat(b.val) > 0), b.m)

\* functionAND without the short circuit: the second operand is evaluated
\* before the first is looked at.
functionAND_eager(args, path, m) ==
    IF Len(args) # 3 THEN Ret(createError("AND_OR_ERROR"), m)
    ELSE LET a == operand(args, 1, path, m)
             b == operand(args, 2, path, a.m)
         IN  IF a.val.type = "ERROR_TYPE" THEN Ret(a.val, b.m)
             ELSE IF b.val.type = "ERROR_TYPE" THEN b
             ELSE IF ~isNumericType(a.val) \/ ~isNumericType(b.val)
                  THEN Ret(createError("AND_OR_ERROR"), b.m)
             ELSE Ret(boolValue(asFloat(a.val) > 0 /\ asFloat(b.val) > 0), b.m)

functionAND(args, path, m) ==
    IF Len(args) # 3 THEN Ret(createError("AND_OR_ERROR"), m)
    ELSE LET a == operand(args, 1, path, m)
         IN  IF a.val.type = "ERROR_TYPE" THEN a
             ELSE IF ~(asFloat(a.val) > 0) THEN Ret(FloatValue(0), a.m)
             ELSE LET b == operand(args, 2, path, a.m)
                  IN  IF b.val.type = "ERROR_TYPE" THEN b
                      ELSE IF ~isNumericType(a.val) \/ ~isNumericType(b.val)
                           THEN Ret(createError("AND_OR_ERROR"), b.m)
                      ELSE Ret(boolValue(asFloat(a.val) > 0 /\ asFloat(b.val) > 0), b.m)

\* functionOR without the short circuit.
functionOR_eager(args, path, m) ==
    IF Len(args) # 3 THEN Ret(createError("AND_OR_ERROR"), m)
    ELSE LET a == operand(args, 1, path, m)
             b == operand(args, 2, path, a.m)
         IN  IF a.val.type = "ERROR_TYPE" THEN Ret(a.val, b.m)
             ELSE IF b.val.type = "ERROR_TYPE" THEN b
             ELSE IF ~isNumericType(a.val) \/ ~isNumericType(b.val)
                  THEN Ret(createError("AND_OR_ERROR"), b.m)
             ELSE Ret(boolValue(asFloat(a.val) > 0 \/ asFloat(b.val) > 0), b.m)

functionOR(args, path, m) ==
    IF Len(args) # 3 THEN Ret(createError("AND_OR_ERROR"), m)
    ELSE LET a == operand(args, 1, path, m)
         IN  IF a.val.type = "ERROR_TYPE" THEN a
             ELSE IF asFloat(a.val) > 0 THEN Ret(FloatValue(FloatUnit), a.m)
             ELSE LET b == operand(args, 2, path, a.m)
                  IN  IF b.val.type = "ERROR_TYPE" THEN b
                      ELSE IF ~isNumericType(a.val) \/ ~isNumericType(b.val)
                           THEN Ret(createError("AND_OR_ERROR"), b.m)
                      ELSE Ret(boolValue(asFloat(a.val) > 0 \/ asFloat(b.val) > 0), b.m)

functionNOT(args, path, m) ==
    validateUnaryNumeric(args, path, m, "!")

\* functionIF without the check of the kind of the condition.
functionIF_unchecked(args, path, m) ==
    IF Len(args) # 4 THEN Ret(createError("IF_CONDITION_ERROR"), m)
    ELSE LET cond == operand(args, 1, path, m)
         IN  IF cond.val.type = "ERROR_TYPE" THEN cond
             ELSE IF asFloat(cond.val) > 0
                  THEN operand(args, 2, path, cond.m)
                  ELSE operand(args, 3, path, cond.m)

\* functionIF that evaluates both branches and then selects one.
functionIF_eager(args, path, m) ==
    IF Len(args) # 4 THEN Ret(createError("IF_CONDITION_ERROR"), m)
    ELSE LET cond == operand(args, 1, path, m)
         IN  IF cond.val.type = "ERROR_TYPE" THEN cond
             ELSE IF ~isNumericType(cond.val)
                  THEN Ret(createError("IF_CONDITION_ERROR"), cond.m)
             ELSE LET t == operand(args, 2, path, cond.m)
                      e == operand(args, 3, path, t.m)
                  IN  IF asFloat(cond.val) > 0 THEN Ret(t.val, e.m) ELSE e

functionIF(args, path, m) ==
    IF Len(args) # 4 THEN Ret(createError("IF_CONDITION_ERROR"), m)
    ELSE LET cond == operand(args, 1, path, m)
         IN  IF cond.val.type = "ERROR_TYPE" THEN cond
             ELSE IF ~isNumericType(cond.val)
                  THEN Ret(createError("IF_CONDITION_ERROR"), cond.m)
             ELSE IF asFloat(cond.val) > 0
                  THEN operand(args, 2, path, cond.m)
                  ELSE operand(args, 3, path, cond.m)

\* functionSET that checks the kind of its first operand only.
functionSET_anyArity(args, path, m) ==
    IF Len(args) < 3 THEN Ret(createError("BOOL_ACTUATOR_ERROR"), m)
    ELSE LET act == operand(args, 1, path, m)
             val == operand(args, 2, path, act.m)
         IN  IF act.val.type = "ERROR_TYPE" THEN Ret(act.val, val.m)
             ELSE IF val.val.type = "ERROR_TYPE" THEN val
             ELSE IF act.val.type # "ACTUATOR_TYPE" \/ ~isNumericType(val.val)
                  THEN Ret(createError("BOOL_ACTUATOR_ERROR"), val.m)
             ELSE Ret(createVoid,
                      invokeSetter(val.m, act.val.fn[1], asFloat(val.val), "SET", path))

functionSET_unchecked(args, path, m) ==
    IF Len(args) # 3 THEN Ret(createError("BOOL_ACTUATOR_ERROR"), m)
    ELSE LET act == operand(args, 1, path, m)
             val == operand(args, 2, path, act.m)
         IN  IF act.val.type = "ERROR_TYPE" THEN Ret(act.val, val.m)
             ELSE IF act.val.type # "ACTUATOR_TYPE"
                  THEN Ret(createError("BOOL_ACTUATOR_ERROR"), val.m)
             ELSE Ret(createVoid,
                      invokeSetter(val.m, act.val.fn[1], asFloat(val.val), "SET", path))

functionSET(args, path, m) ==
    IF Len(args) # 3 THEN Ret(createError("BOOL_ACTUATOR_ERROR"), m)
    ELSE LET act == operand(args, 1, path, m)
             val == operand(args, 2, path, act.m)
         IN  IF act.val.type = "ERROR_TYPE" THEN Ret(act.val, val.m)
             ELSE IF val.val.type = "ERROR_TYPE" THEN val
             ELSE IF act.val.type # "ACTUATOR_TYPE" \/ ~isNumericType(val.val)
                  THEN Ret(createError("BOOL_ACTUATOR_ERROR"), val.m)
             ELSE Ret(createVoid,
                      invokeSetter(val.m, act.val.fn[1], asFloat(val.val), "SET", path))

functionNOP(args, path, m) == Ret(createVoid, m)

\* Call of a registered std::function by its registry entry.
callHandler(handler, args, path, m) ==
    CASE handler = "functionGT"  -> functionGT(args, path, m)
      [] handler = "functionLT"  -> functionLT(args, path, m)
      [] handler = "functionEQ"  -> functionEQ(args, path, m)
      [] handler = "functionNE"  -> functionNE(args, path, m)
      [] handler = "functionGTE" -> functionGTE(args, path, m)
      [] handler = "functionLTE" -> functionLTE(args, path, m)
      [] handler = "functionAND" -> functionAND(args, path, m)
      [] handler = "functionOR"  -> functionOR(args, path, m)
      [] handler = "functionNOT" -> functionNOT(args, path, m)
      [] handler = "functionIF"  -> functionIF(args, path, m)
      [] handler = "functionSET" -> functionSET(args, path, m)
      [] handler = "functionNOP" -> functionNOP(args, path, m)
      [] handler = "functionGetTemperature" -> functionGetTemperature(args, path, m)
      [] handler = "functionGetHumidity"    -> functionGetHumidity(args, path, m)
      [] handler = "functionGetPhotoSensor" -> functionGetPhotoSensor(args, path, m)
      [] handler = "functionGetLightSwitch" -> functionGetLightSwitch(args, path, m)
      [] handler = "functionGetCurrentTime" -> functionGetCurrentTime(args, path, m)

\* Dispatch that answers a name it does not know as the if-chain of the
\* RuleReturn evaluator does, with UNREC_FUNC_ERROR.
dispatchFunction_legacy(args, path, m) ==
    LET registry == registerFunctions(EmptyRegistry)
        name     == args[1].v
    IN  IF name \notin DOMAIN registry
        THEN Ret(createError("UNREC_FUNC_ERROR"), m)
        ELSE callHandler(registry[name], args, path, m)

\* Registry dispatch of a function call whose name is a string: a miss is
\* FUNCTION_NOT_FOUND, a hit returns what the handler returns.
dispatchFunction(args, path, m) ==
    LET registry == registerFunctions(EmptyRegistry)
        name     == args[1].v
    IN  IF name \notin DOMAIN registry
        THEN Ret(createError("FUNCTION_NOT_FOUND"), m)
        ELSE callHandler(registry[name], args, path, m)

\* env.tryReadValue of the callback-based environment: the values the
\* environment knows by name.  The environment processAutomationDsl builds has
\* no such callback (m.values is empty).
tryReadValue(name, m) ==
    IF name \in DOMAIN m.values
    THEN [found |-> TRUE, val |-> m.values[name]]
    ELSE [found |-> FALSE, val |-> createVoid]

\* Literal section in which a string that fails as a time literal goes on to
\* actuator and value resolution.
processLiteral_fallThrough(doc, m) ==
    CASE doc.j = "string" ->
            IF jsonIsTimeLiteral(doc.v) /\ parseTimeLiteral(doc.v) >= 0
            THEN FloatValue(parseTimeLiteral(doc.v) * FloatUnit)
            ELSE IF tryGetActuator(doc.v).found
                 THEN createActuator(tryGetActuator(doc.v).index)
            ELSE IF tryReadValue(doc.v, m).found
                 THEN tryReadValue(doc.v, m).val
            ELSE createError("UNREC_STR_ERROR")
      [] doc.j = "bool"  -> boolValue(doc.v)
      [] doc.j = "int"   -> FloatValue(doc.v * FloatUnit)
      [] doc.j = "float" -> FloatValue(doc.v)
      [] OTHER           -> createError("UNREC_TYPE_ERROR")

\* Literal section of processRuleCore.  A value read by name is returned as
\* the UnifiedValue the callback gave (Float, Int or String), as the
\* UnifiedValue evaluator declared in core_deprecated.h does and its tests
\* expect; the RuleReturn evaluator of core.cpp converts it to a float.
processLiteral(doc, m) ==
    CASE doc.j = "string" ->
            IF jsonIsTimeLiteral(doc.v)
            THEN LET secs == parseTimeLiteral(doc.v)
                 IN  IF secs < 0 THEN createError("TIME_ERROR")
                     ELSE FloatValue(secs * FloatUnit)
            ELSE IF tryGetActuator(doc.v).found
                 THEN createActuator(tryGetActuator(doc.v).index)
            ELSE IF tryReadValue(doc.v, m).found
                 THEN tryReadValue(doc.v, m).val
            ELSE createError("UNREC_STR_ERROR")
      [] doc.j = "bool"  -> boolValue(doc.v)
      [] doc.j = "int"   -> FloatValue(doc.v * FloatUnit)
      [] doc.j = "float" -> FloatValue(doc.v)
      [] OTHER           -> createError("UNREC_TYPE_ERROR")

\* processRuleCore that, on resolving an actuator name, calls the setter it
\* has bound with the value 0.
processRuleCore_probe(doc, path, m) ==
    LET r == IF doc.j # "array"
             THEN Ret(processLiteral(doc, m),
                      IF processLiteral(doc, m).type = "ACTUATOR_TYPE"
                      THEN invokeSetter(m, processLiteral(doc, m).fn[1], 0, "probe", path)
                      ELSE m)
             ELSE IF doc.v = <<>> \/ doc.v[1].j # "string"
                  THEN Ret(createError("UNREC_FUNC_ERROR"), m)
             ELSE dispatchFunction(doc.v, path, m)
    IN  [val |-> r.val,
         m   |-> [r.m EXCEPT !.trace = Append(@, [path |-> path, val |-> r.val])]]

\* processRuleCore that answers an array without a function name as it
\* answers a literal of an unknown type.
processRuleCore_typeError(doc, path, m) ==
    LET r == IF doc.j # "array" THEN Ret(processLiteral(doc, m), m)
             ELSE IF doc.v = <<>> \/ doc.v[1].j # "string"
                  THEN Ret(createError("UNREC_TYPE_ERROR"), m)
             ELSE dispatchFunction(doc.v, path, m)
    IN  [val |-> r.val,
         m   |-> [r.m EXCEPT !.trace = Append(@, [path |-> path, val |-> r.val])]]

processRuleCore(doc, path, m) ==
    LET r == IF doc.j # "array" THEN Ret(processLiteral(doc, m), m)
             ELSE IF doc.v = <<>> \/ doc.v[1].j # "string"
                  THEN Ret(createError("UNREC_FUNC_ERROR"), m)
             ELSE dispatchFunction(doc.v, path, m)
    IN  [val |-> r.val,
         m   |-> [r.m EXCEPT !.trace = Append(@, [path |-> path, val |-> r.val])]]

\* ------------------------------------------------------- rule-set driver
\* A stored rule string, by what deserializeJson (ArduinoJson) makes of it:
\* either a parse error or the document.
Rule(doc) == [wellFormed |-> TRUE, json |-> doc]

BadRule == [wellFormed |-> FALSE, json |-> JNull]

deserializeJson(rule) ==
    [error |-> ~rule.wellFormed,
     doc   |-> IF rule.wellFormed THEN rule.json ELSE JNull]

DONT_CARE_VALUE == 2

\* The loop body without the automatic relay control.
processRuleSetIteration_noAuto(rules, i, m) ==
    LET name   == relayPrefix \o to_string(i)
        act    == tryGetActuator(name)
        m1     == IF act.found
                  THEN invokeSetter(m, act.index, DONT_CARE_VALUE * FloatUnit, "reset", <<>>)
                  ELSE m
        parsed == deserializeJson(rules[i])
    IN  IF parsed.error
        THEN [m |-> m1, parseError |-> TRUE, result |-> createVoid,
              afterReset |-> m1.relays, afterEval |-> m1.relays, next |-> i + 1]
        ELSE LET r  == processRuleCore(parsed.doc, <<>>, m1)
                 m3 == r.m
             IN  [m |-> m3, parseError |-> FALSE, result |-> r.val,
                  afterReset |-> m1.relays, afterEval |-> r.m.relays, next |-> i + 1]

\* The loop body with the automatic relay control applied to every result.
processRuleSetIteration_autoAlways(rules, i, m) ==
    LET name   == relayPrefix \o to_string(i)
        act    == tryGetActuator(name)
        m1     == IF act.found
                  THEN invokeSetter(m, act.index, DONT_CARE_VALUE * FloatUnit, "reset", <<>>)
                  ELSE m
        parsed == deserializeJson(rules[i])
    IN  IF parsed.error
        THEN [m |-> m1, parseError |-> TRUE, result |-> createVoid,
              afterReset |-> m1.relays, afterEval |-> m1.relays, next |-> i + 1]
        ELSE LET r  == processRuleCore(parsed.doc, <<>>, m1)
                 m3 == IF act.found
                       THEN invokeSetter(r.m, act.index, asFloat(r.val), "auto", <<>>)
                       ELSE r.m
             IN  [m |-> m3, parseError |-> FALSE, result |-> r.val,
                  afterReset |-> m1.relays, afterEval |-> r.m.relays, next |-> i + 1]

\* The loop body leaving the loop when a rule evaluates to an error.
processRuleSetIteration_abortOnError(rules, i, m) ==
    LET name   == relayPrefix \o to_string(i)
        act    == tryGetActuator(name)
        m1     == IF act.found
                  THEN invokeSetter(m, act.index, DONT_CARE_VALUE * FloatUnit, "reset", <<>>)
                  ELSE m
        parsed == deserializeJson(rules[i])
    IN  IF parsed.error
        THEN [m |-> m1, parseError |-> TRUE, result |-> createVoid,
              afterReset |-> m1.relays, afterEval |-> m1.relays, next |-> i + 1]
        ELSE LET r  == processRuleCore(parsed.doc, <<>>, m1)
                 m3 == IF r.val.type = "FLOAT_TYPE" /\ act.found
                       THEN invokeSetter(r.m, act.index, r.val.n, "auto", <<>>)
                       ELSE r.m
             IN  [m |-> m3, parseError |-> FALSE, result |-> r.val,
                  afterReset |-> m1.relays, afterEval |-> r.m.relays, next |-> IF r.val.type = "ERROR_TYPE" THEN Cardinality(DOMAIN rules) ELSE i + 1]

\* A loop that does not advance after a rule that fails to parse.
processRuleSetIteration_retry(rules, i, m) ==
    LET name   == relayPrefix \o to_string(i)
        act    == tryGetActuator(name)
        m1     == IF act.found
                  THEN invokeSetter(m, act.index, DONT_CARE_VALUE * FloatUnit, "reset", <<>>)
                  ELSE m
        parsed == deserializeJson(rules[i])
    IN  IF parsed.error
        THEN [m |-> m1, parseError |-> TRUE, result |-> createVoid,
              afterReset |-> m1.relays, afterEval |-> m1.relays, next |-> i]
        ELSE LET r  == processRuleCore(parsed.doc, <<>>, m1)
                 m3 == IF r.val.type = "FLOAT_TYPE" /\ act.found
                       THEN invokeSetter(r.m, act.index, r.val.n, "auto", <<>>)
                       ELSE r.m
             IN  [m |-> m3, parseError |-> FALSE, result |-> r.val,
                  afterReset |-> m1.relays, afterEval |-> r.m.relays, next |-> i + 1]

\* One iteration of the loop of processRuleSet for index i.  Besides the
\* machine record it returns the relay array after the reset and after the
\* evaluation, the result, and the index the loop goes on with.
processRuleSetIteration(rules, i, m) ==
    LET name   == relayPrefix \o to_string(i)
        act    == tryGetActuator(name)
        m1     == IF act.found
                  THEN invokeSetter(m, act.index, DONT_CARE_VALUE * FloatUnit, "reset", <<>>)
                  ELSE m
        parsed == deserializeJson(rules[i])
    IN  IF parsed.error
        THEN [m |-> m1, parseError |-> TRUE, result |-> createVoid,
              afterReset |-> m1.relays, afterEval |-> m1.relays, next |-> i + 1]
        ELSE LET r  == processRuleCore(parsed.doc, <<>>, m1)
                 m3 == IF r.val.type = "FLOAT_TYPE" /\ act.found
                       THEN invokeSetter(r.m, act.index, r.val.n, "auto", <<>>)
                       ELSE r.m
             IN  [m |-> m3, parseError |-> FALSE, result |-> r.val,
                  afterReset |-> m1.relays, afterEval |-> r.m.relays, next |-> i + 1]

RECURSIVE processRuleSetFrom(_, _, _, _)
processRuleSetFrom(rules, ruleCount, i, m) ==
    IF i >= ruleCount THEN m
    ELSE LET it == processRuleSetIteration(rules, i, m)
         IN  processRuleSetFrom(rules, ruleCount, it.next, it.m)

processRuleSet(rules, ruleCount, m) == processRuleSetFrom(rules, ruleCount, 0, m)

\* The machine record at the start of an evaluation: the globals, and
\* empty logs.
NoValues == [name \in {} |-> createVoid]

machineReading(relays, sens, repr, values) ==
    [relays |-> relays, sensors |-> sens, repr |-> repr, values |-> values,
     calls |-> <<>>, trace |-> <<>>, reads |-> <<>>, oob |-> FALSE]

machine(relays, sens, repr) == machineReading(relays, sens, repr, NoValues)

\* ------------------------------------------------------- inputs
relayName(k) == relayPrefix \o to_string(k)

Relays == 0 .. (RelayCount - 1)

nUNKNOWN_FN == <<"U", "N", "K", "N", "O", "W", "N", "_", "F", "N">>

sFoo == <<"f", "o", "o">>

sRelayX == <<"r", "e", "l", "a", "y", "_", "x">>

sTime1430 == <<"@", "1", "4", ":", "3", "0", ":", "0", "0">>

sTime2500 == <<"@", "2", "5", ":", "0", "0", ":", "0", "0">>

Call(name, args) == JArr(<<JStr(name)>> \o args)

eNOP == Call(nNOP, <<>>)

eUnknown == Call(nUNKNOWN_FN, <<>>)

eTemperature == Call(ngetTemperature, <<>>)

eSET(k, v) == Call(nSET, <<JStr(relayName(k)), v>>)

eIF(c, t, e) == Call(nIF, <<c, t, e>>)

eTempAbove(n) == Call(nGT, <<eTemperature, JInt(n)>>)

SensorSnapshots ==
    { [CURRENT_TEMPERATURE |-> 55, CURRENT_HUMIDITY |-> 130,
       LIGHT_LEVEL |-> 1500, IS_SWITCH_ON |-> 1, seconds |-> 43200],
      [CURRENT_TEMPERATURE |-> 40, CURRENT_HUMIDITY |-> 80,
       LIGHT_LEVEL |-> 200, IS_SWITCH_ON |-> 0, seconds |-> 52200] }

EnumReprs == {"int", "uint8"}

\* Values an operator posts to /relays: a force digit, auto digit don't-care.
OperatorValues == {FORCE_ON_AUTO_X, FORCE_X_AUTO_X}

\* Rule strings an operator posts to /rule: an erroring rule, a bare
\* comparison, a bare number, a bare actuator name, SETs with operands
\* outside 0..2, a SET followed by an error, and an explicit IF rule.
PostedDocs ==
    {eUnknown, eTempAbove(25), JFloat(3), JStr(relayName(0)),
     eSET(1, JInt(-1)), eSET(0, JInt(99)),
     Call(nGT, <<eSET(1, JInt(1)), eUnknown>>),
     eIF(eTempAbove(25), eSET(0, JInt(1)), eSET(0, JInt(0)))}

PostedRules == {Rule(d) : d \in PostedDocs} \cup {BadRule}

\* ------------------------------------------------------- state machine
NoLast ==
    [kind |-> "none", i |-> -1, rule |-> BadRule, pre |-> <<>>,
     parseError |-> FALSE, result |-> createVoid, afterReset |-> <<>>,
     afterEval |-> <<>>, calls |-> <<>>, trace |-> <<>>, reads |-> <<>>,
     next |-> -1, secs |-> -1, prev |-> createVoid]

Idle == loopIndex = -1

\* The two FreeRTOS tasks that run code of the firmware: the task of the
\* asynchronous web server, which calls the request handlers, and the Arduino
\* loop task.  pc is the position of the task in the code it runs; the other
\* fields are the locals of the function it is in.  Neither task has begun
\* a function in NoTasks.
NoTasks ==
    [async_tcp |-> [pc |-> "idle", index |-> 0, value |-> 0, src |-> "none",
                    currentValue |-> 0],
     loopTask  |-> [pc |-> "idle", switchV |-> 0, sunroomV |-> FALSE]]

\* Values setupRelay finds in the preferences: what writeRelayValues stored
\* after an operator's last POST /relays, or the value addRelay gives.
StoredValues == {FORCE_OFF_AUTO_X, FORCE_ON_AUTO_X}

\* State after setup(): setupRelay has loaded the relay values; the rules
\* are the default rule.
Init ==
    /\ \E v \in StoredValues : RELAY_VALUES = [k \in Relays |-> v]
    /\ RELAY_RULES = [k \in Relays |-> Rule(eNOP)]
    /\ sensors \in SensorSnapshots
    /\ enumRepr \in EnumReprs
    /\ loopIndex = -1
    /\ requests = 0
    /\ passStart = RELAY_VALUES
    /\ passLog = <<>>
    /\ last = NoLast
    /\ expr = BadRule
    /\ tasks = NoTasks

\* POST /rule: store the rule string, then process the rules.
setRule ==
    /\ Idle
    /\ requests < MaxRequests
    /\ \E relay \in Relays, rules \in PostedRules :
          RELAY_RULES' = [RELAY_RULES EXCEPT ![relay] = rules]
    /\ requests' = requests + 1
    /\ loopIndex' = 0
    /\ passStart' = RELAY_VALUES
    /\ passLog' = <<>>
    /\ last' = NoLast
    /\ UNCHANGED <<RELAY_VALUES, sensors, enumRepr, expr, tasks>>

\* POST /relays: store the posted relay values, then process the rules.
setRelays ==
    /\ Idle
    /\ requests < MaxRequests
    /\ \E i \in Relays, value \in OperatorValues :
          RELAY_VALUES' = [RELAY_VALUES EXCEPT ![i] = value]
    /\ requests' = requests + 1
    /\ loopIndex' = 0
    /\ passStart' = RELAY_VALUES'
    /\ passLog' = <<>>
    /\ last' = NoLast
    /\ UNCHANGED <<RELAY_RULES, sensors, enumRepr, expr, tasks>>

\* Control-loop tick: the polling loops refresh the sensor globals and
\* processAutomationDsl processes the rules.
processAutomationDsl ==
    /\ Idle
    /\ sensors' \in SensorSnapshots
    /\ loopIndex' = 0
    /\ passStart' = RELAY_VALUES
    /\ passLog' = <<>>
    /\ last' = NoLast
    /\ UNCHANGED <<RELAY_VALUES, RELAY_RULES, enumRepr, requests, expr, tasks>>

\* One iteration of the loop of processRuleSet.
processRuleSetStep ==
    /\ loopIndex \in Relays
    /\ \E it \in {processRuleSetIteration(RELAY_RULES, loopIndex,
                                           machine(RELAY_VALUES, sensors, enumRepr))} :
           /\ RELAY_VALUES' = it.m.relays
           /\ loopIndex' = it.next
           /\ last' = [kind |-> "step", i |-> loopIndex,
                       rule |-> RELAY_RULES[loopIndex], pre |-> RELAY_VALUES,
                       parseError |-> it.parseError, result |-> it.result,
                       afterReset |-> it.afterReset, afterEval |-> it.afterEval,
                       calls |-> it.m.calls, trace |-> it.m.trace,
                       reads |-> it.m.reads, next |-> it.next, secs |-> -1,
                       prev |-> createVoid]
           /\ passLog' = Append(passLog,
                      [i |-> loopIndex,
                       parseError |-> it.parseError, result |-> it.result,
                       setOn |-> {it.m.calls[k].index :
                                     k \in {l \in DOMAIN it.m.calls :
                                               it.m.calls[l].src = "SET"}}])
    /\ UNCHANGED <<RELAY_RULES, sensors, enumRepr, requests, passStart, expr, tasks>>

\* processRuleSet returns.
processRuleSetReturn ==
    /\ loopIndex >= RelayCount
    /\ loopIndex' = -1
    /\ passStart' = RELAY_VALUES
    /\ passLog' = <<>>
    /\ last' = NoLast
    /\ UNCHANGED <<RELAY_VALUES, RELAY_RULES, sensors, enumRepr, requests, expr, tasks>>

Next ==
    \/ setRule
    \/ setRelays
    \/ processAutomationDsl
    \/ processRuleSetStep
    \/ processRuleSetReturn

Spec == Init /\ [][Next]_vars

\* ------------------------------------------------------- one pass
\* One call of processRuleSet, from its entry to its return.  The loop is
\* sequential code without a blocking call and the evaluation of a rule is a
\* recursion over a finite document: an iteration that has begun reaches the
\* i++ of the for statement, and the function returns when the loop is over.
PassRules ==
    {Rule(eNOP), Rule(eTempAbove(25)), Rule(eSET(RelayCount - 1, JInt(1))),
     Rule(Call(nGT, <<eSET(0, JInt(1)), eUnknown>>)), BadRule}

InitPass ==
    /\ RELAY_VALUES \in [Relays -> StoredValues]
    /\ RELAY_RULES \in [Relays -> PassRules]
    /\ sensors \in SensorSnapshots
    /\ enumRepr \in EnumReprs
    /\ loopIndex = 0
    /\ requests = 0
    /\ passStart = RELAY_VALUES
    /\ passLog = <<>>
    /\ last = NoLast
    /\ expr = BadRule
    /\ tasks = NoTasks

NextPass ==
    \/ processRuleSetStep
    \/ processRuleSetReturn

\* The i++ of the for statement, with i < ruleCount before it.
loopAdvance == loopIndex \in Relays /\ loopIndex' = loopIndex + 1

PassSpec ==
    /\ InitPass
    /\ [][NextPass]_vars
    /\ WF_loopIndex(loopAdvance)
    /\ WF_vars(processRuleSetReturn)

\* ------------------------------------------------------- single evaluation
\* Expressions for the evaluation of one rule against an environment, as
\* the executeRule helper of the native tests does it.
CondDocs ==
    {JInt(-1), JInt(0), JInt(1), JFloat(1), JBool(TRUE),
     eTempAbove(25), eTempAbove(1000),
     eUnknown, eNOP, JStr(relayName(0)), JStr(sFoo),
     JStr(sTime1430), JStr(sTime2500)}

SetDocs ==
    {eSET(k, v) : k \in Relays, v \in {JInt(0), JInt(1)}}
    \cup {eSET(0, JInt(99))}

BranchDocs == SetDocs \cup {eNOP, eUnknown, JInt(0), JInt(1)}

IfDocs == {eIF(c, t, e) : c \in CondDocs, t \in BranchDocs, e \in BranchDocs}

AndOrDocs ==
    {Call(op, <<a, b>>) : op \in {nAND, nOR}, a \in CondDocs,
                          b \in BranchDocs \cup {eTempAbove(25)}}

InnerDocs ==
    {eIF(JInt(1), eSET(0, JInt(1)), eSET(0, JInt(0))),
     eIF(JInt(0), eSET(RelayCount - 1, JInt(1)), eUnknown),
     Call(nAND, <<JInt(0), eSET(0, JInt(1))>>),
     Call(nAND, <<JInt(1), eSET(0, JInt(1))>>),
     Call(nOR, <<JInt(0), eSET(RelayCount - 1, JInt(1))>>),
     Call(nOR, <<eTempAbove(25), eSET(0, JInt(0))>>)}

NestedDocs ==
    {eIF(c, x, y) : c \in {JInt(0), eTempAbove(25)}, x \in InnerDocs, y \in InnerDocs}
    \cup {Call(op, <<x, y>>) : op \in {nAND, nOR}, x \in InnerDocs, y \in InnerDocs}
    \cup {Call(op, <<Call(nNOT, <<x>>), y>>) :
             op \in {nAND, nOR}, x \in {JInt(0), JInt(1)}, y \in InnerDocs}

ArityDocs ==
    {Call(nIF, <<JInt(1), eSET(0, JInt(1))>>),
     Call(nIF, <<JInt(1), eSET(0, JInt(1)), eSET(0, JInt(0)), eNOP>>),
     Call(nAND, <<JInt(0)>>),
     Call(nOR, <<JInt(1), eSET(0, JInt(1)), eNOP>>),
     JArr(<<>>), JArr(<<JInt(123), JInt(1)>>), JNull,
     JArr(<<eNOP>>), JArr(<<JInt(123), eSET(0, JInt(1))>>),
     Call(nUNKNOWN_FN, <<JInt(1), JInt(2)>>),
     Call(nUNKNOWN_FN, <<eSET(0, JInt(1))>>),
     Call(<<"g", "t">>, <<JInt(2), JInt(1)>>),
     Call(nAND, <<JInt(1), Call(nUNKNOWN_FN, <<eSET(0, JInt(1))>>)>>)}

\* Operands of every kind: three that fail with different error codes, a
\* null, numbers, a Void and an Actuator.
KindDocs ==
    {eUnknown, JStr(sFoo), JStr(sTime2500), JNull, JInt(0), JInt(1), JFloat(3),
     eNOP, JStr(relayName(0)), JStr(sTime1430)}

BinaryNames == {nGT, nLT, nGTE, nLTE, nEQ, nNE, nAND, nOR, nSET}

OperatorDocs ==
    {Call(op, <<a, b>>) : op \in BinaryNames, a \in KindDocs, b \in KindDocs}
    \cup {Call(nNOT, <<a>>) : a \in KindDocs}
    \cup {Call(op, <<eSET(0, JInt(1)), JStr(sFoo)>>) : op \in BinaryNames}
    \cup {Call(op, <<JStr(relayName(0)), eSET(0, JInt(1))>>) : op \in BinaryNames}

\* Calls of every operator with too few and too many elements, whose
\* elements are a SET, a call that fails and numbers; NOP with elements.
ArityOperands ==
    {<<>>, <<eSET(0, JInt(1))>>, <<eUnknown>>,
     <<JStr(relayName(0)), JInt(1), eSET(RelayCount - 1, JInt(1))>>,
     <<eUnknown, eSET(0, JInt(1)), JInt(1)>>,
     <<JInt(1), eSET(0, JInt(1)), eUnknown, eSET(0, JInt(0))>>}

WrongArityDocs ==
    {Call(op, a) : op \in BinaryNames, a \in ArityOperands}
    \cup {Call(nNOT, a) : a \in ArityOperands \cup {<<JInt(1), eSET(0, JInt(1))>>}}
    \cup {Call(nIF, a) : a \in (ArityOperands \cup {<<JInt(1), eSET(0, JInt(1))>>})
                                \ {<<eUnknown, eSET(0, JInt(1)), JInt(1)>>,
                                    <<JStr(relayName(0)), JInt(1), eSET(RelayCount - 1, JInt(1))>>}}
    \cup {Call(nNOP, a) : a \in ArityOperands \cup {<<eUnknown, eSET(0, JInt(1))>>}}
    \cup {Call(nAND, <<JInt(1), Call(nSET, <<JStr(relayName(0)), JInt(1), eUnknown>>)>>),
          eIF(Call(nGT, <<JInt(1)>>), eSET(0, JInt(1)), eSET(0, JInt(0))),
          eIF(JInt(1), Call(nNOP, <<eSET(0, JInt(1))>>), eUnknown),
          Call(nOR, <<Call(nNOT, <<>>), eSET(0, JInt(1))>>)}

\* Names with the relay prefix whose suffix is not the index of a relay:
\* too large, negative, not a number and empty; alone and as the target of
\* a SET.
sRelay99 == relayPrefix \o <<"9", "9">>

sRelayMinus1 == relayPrefix \o <<"-", "1">>

OddRelayNames == {sRelay99, sRelayMinus1, sRelayX, relayPrefix}

NameDocs ==
    {JStr(n) : n \in OddRelayNames}
    \cup {Call(nSET, <<JStr(n), JInt(1)>>) : n \in OddRelayNames}

SensorNames ==
    {ngetTemperature, ngetHumidity, ngetPhotoSensor, ngetLightSwitch, ngetCurrentTime}

\* Sensor calls alone and as operands, with and without extra elements.
SensorDocs ==
    {Call(n, <<>>) : n \in SensorNames}
    \cup {Call(n, <<x>>) : n \in SensorNames,
                           x \in {JInt(25), eSET(0, JInt(1)), eTemperature, eUnknown}}
    \cup {Call(ngetHumidity, <<JStr(sFoo), JStr(sFoo)>>)}
    \cup {Call(nGT, <<Call(n, <<>>), JInt(25)>>) : n \in SensorNames}
    \cup {Call(nOR, <<Call(n, <<eSET(0, JInt(1))>>), eSET(0, JInt(1))>>) : n \in SensorNames}

\* SETs of values below, at and above the values 0, 1, 2 of the auto digit.
RangeDocs == {eSET(0, JInt(v)) : v \in {-1, 2, 3}}

EvalDocs ==
    RangeDocs \cup SensorDocs \cup CondDocs \cup SetDocs \cup IfDocs \cup AndOrDocs \cup NestedDocs \cup ArityDocs
    \cup OperatorDocs \cup WrongArityDocs \cup NameDocs

executeRule ==
    /\ last.kind = "none"
    /\ \E parsed \in {deserializeJson(expr)},
          m0 \in {machine(RELAY_VALUES, sensors, enumRepr)} :
       \E r \in {IF parsed.error THEN Ret(createError("UNREC_FUNC_ERROR"), m0)
                  ELSE processRuleCore(parsed.doc, <<>>, m0)} :
           /\ RELAY_VALUES' = r.m.relays
           /\ last' = [kind |-> "eval", i |-> -1, rule |-> expr,
                       pre |-> RELAY_VALUES, parseError |-> parsed.error,
                       result |-> r.val, afterReset |-> RELAY_VALUES,
                       afterEval |-> r.m.relays, calls |-> r.m.calls,
                       trace |-> r.m.trace, reads |-> r.m.reads, next |-> -1,
                       secs |-> -1, prev |-> createVoid]
    /\ UNCHANGED <<RELAY_RULES, sensors, enumRepr, loopIndex, requests,
                   passStart, passLog, expr, tasks>>

InitEval ==
    /\ RELAY_VALUES \in [Relays -> {FORCE_OFF_AUTO_X, FORCE_ON_AUTO_X}]
    /\ RELAY_RULES = [k \in Relays |-> Rule(eNOP)]
    /\ sensors \in SensorSnapshots
    /\ enumRepr \in EnumReprs
    /\ loopIndex = -1
    /\ requests = 0
    /\ passStart = RELAY_VALUES
    /\ passLog = <<>>
    /\ last = NoLast
    /\ expr \in {Rule(d) : d \in EvalDocs} \cup {BadRule}
    /\ tasks = NoTasks

\* The same rule executed a second time, right after the first, with the
\* sensors as they were and the relays as the first execution left them.
\* last.prev is the result of the first execution.
executeRuleAgain ==
    /\ last.kind = "eval"
    /\ \E parsed \in {deserializeJson(expr)},
          m0 \in {machine(RELAY_VALUES, sensors, enumRepr)} :
       \E r \in {IF parsed.error THEN Ret(createError("UNREC_FUNC_ERROR"), m0)
                  ELSE processRuleCore(parsed.doc, <<>>, m0)} :
           /\ RELAY_VALUES' = r.m.relays
           /\ last' = [kind |-> "again", i |-> -1, rule |-> expr,
                       pre |-> RELAY_VALUES, parseError |-> parsed.error,
                       result |-> r.val, afterReset |-> RELAY_VALUES,
                       afterEval |-> r.m.relays, calls |-> r.m.calls,
                       trace |-> r.m.trace, reads |-> r.m.reads, next |-> -1,
                       secs |-> -1, prev |-> last.result]
    /\ UNCHANGED <<RELAY_RULES, sensors, enumRepr, loopIndex, requests,
                   passStart, passLog, expr, tasks>>

NextEval ==
    \/ executeRule
    \/ executeRuleAgain

EvalSpec == InitEval /\ [][NextEval]_vars

\* ------------------------------------------------------- value reading
\* Evaluation against an environment whose tryReadValue knows values by
\* name, as the ValueReading and comparison tests set it up: a Float, an
\* Int and Strings (two names with the same text, one with a numeric text);
\* and it knows three names that begin with '@', two of them time literals.
sTemperature == <<"t", "e", "m", "p", "e", "r", "a", "t", "u", "r", "e">>

sCount == <<"c", "o", "u", "n", "t">>

sStatus == <<"s", "t", "a", "t", "u", "s">>

sState == <<"s", "t", "a", "t", "e">>

sMode == <<"m", "o", "d", "e">>

sLevel == <<"l", "e", "v", "e", "l">>

sOnline == <<"o", "n", "l", "i", "n", "e">>

sOffline == <<"o", "f", "f", "l", "i", "n", "e">>

sFive == <<"5">>

sAtMode == <<"@", "m", "o", "d", "e">>

sBare1430 == Tail(sTime1430)

TestValues ==
    (sTemperature :> FloatValue(25 * FloatUnit + FloatUnit \div 2))
    @@ (sCount :> IntValue(42)) @@ (sStatus :> StringValue(sOnline))
    @@ (sState :> StringValue(sOnline)) @@ (sMode :> StringValue(sOffline))
    @@ (sLevel :> StringValue(sFive)) @@ (sAtMode :> StringValue(sOffline))
    @@ (sTime1430 :> IntValue(7)) @@ (sTime2500 :> IntValue(8))

ReadOperands ==
    {JStr(n) : n \in DOMAIN TestValues}
    \cup {JInt(5), JInt(42), JFloat(25 * FloatUnit + FloatUnit \div 2), JInt(0),
          eNOP, JStr(relayName(0)), JStr(sFoo), JStr(sBare1430), eUnknown}

ComparisonNames == {nGT, nLT, nGTE, nLTE, nEQ, nNE}

\* IF calls with a condition of every kind and a SET in each branch, and
\* AND and OR calls with a first operand of every kind and a second operand
\* that is a SET, a number, a String or a Void.
ReadIfDocs ==
    {eIF(c, eSET(0, JInt(1)), eSET(RelayCount - 1, JInt(0))) : c \in ReadOperands}
    \cup {eIF(JStr(sStatus), eUnknown, JStr(sStatus)),
          Call(nAND, <<JInt(1), eIF(JStr(sMode), eSET(0, JInt(1)), eSET(0, JInt(0)))>>)}

ReadAndOrDocs ==
    {Call(op, <<a, b>>) : op \in {nAND, nOR}, a \in ReadOperands,
                          b \in {eSET(0, JInt(1)), JInt(1), JStr(sStatus), eNOP}}

ReadDocs ==
    ReadOperands
    \cup {Call(op, <<a, b>>) : op \in ComparisonNames, a \in ReadOperands, b \in ReadOperands}
    \cup ReadIfDocs \cup ReadAndOrDocs

executeRuleReading ==
    /\ last.kind = "none"
    /\ \E parsed \in {deserializeJson(expr)},
          m0 \in {machineReading(RELAY_VALUES, sensors, enumRepr, TestValues)} :
       \E r \in {IF parsed.error THEN Ret(createError("UNREC_FUNC_ERROR"), m0)
                  ELSE processRuleCore(parsed.doc, <<>>, m0)} :
           /\ RELAY_VALUES' = r.m.relays
           /\ last' = [kind |-> "eval", i |-> -1, rule |-> expr,
                       pre |-> RELAY_VALUES, parseError |-> parsed.error,
                       result |-> r.val, afterReset |-> RELAY_VALUES,
                       afterEval |-> r.m.relays, calls |-> r.m.calls,
                       trace |-> r.m.trace, reads |-> r.m.reads, next |-> -1,
                       secs |-> -1, prev |-> createVoid]
    /\ UNCHANGED <<RELAY_RULES, sensors, enumRepr, loopIndex, requests,
                   passStart, passLog, expr, tasks>>

InitRead ==
    /\ RELAY_VALUES \in [Relays -> {FORCE_OFF_AUTO_X, FORCE_ON_AUTO_X}]
    /\ RELAY_RULES = [k \in Relays |-> Rule(eNOP)]
    /\ sensors \in SensorSnapshots
    /\ enumRepr \in EnumReprs
    /\ loopIndex = -1
    /\ requests = 0
    /\ passStart = RELAY_VALUES
    /\ passLog = <<>>
    /\ last = NoLast
    /\ expr \in {Rule(d) : d \in ReadDocs}
    /\ tasks = NoTasks

NextRead == executeRuleReading

ReadSpec == InitRead /\ [][NextRead]_vars

\* ------------------------------------------------------- time literal parsing
\* Texts given to parseTimeLiteral: every combination of a first character,
\* two-character hour, minute and second fields and two separators, each
\* from a set with values at and beyond the limits and with non-digits
\* that std::stoi would accept; and texts of other lengths.
HourTexts ==
    {<<"0", "0">>, <<"0", "9">>, <<"1", "0">>, <<"2", "3">>, <<"2", "4">>,
     <<"9", "9">>, <<"2", "x">>, <<"-", "1">>, <<" ", "1">>, <<"+", "1">>}

MinuteTexts ==
    {<<"0", "0">>, <<"0", "1">>, <<"5", "9">>, <<"6", "0">>, <<"9", "9">>,
     <<"5", ":">>, <<"-", "1">>}

SeparatorChars == {":", ".", "0"}

TimeTexts ==
    {<<a>> \o h \o <<c>> \o mi \o <<d>> \o se :
        a \in {"@", "a"}, h \in HourTexts, c \in SeparatorChars,
        mi \in MinuteTexts, d \in SeparatorChars, se \in MinuteTexts}
    \cup {<<>>, <<"@">>, SubSeq(sTime1430, 1, 8), sTime1430 \o <<"0">>,
          sTime1430 \o <<" ">>, <<" ">> \o sTime1430, Tail(sTime1430),
          <<"@", "1", ":", "3", "0", ":", "0", "0", "0">>,
          <<"@", "1", "4", "3", "0", "0", "0">>}

\* int secs = parseTimeLiteral(str), on the text held in expr.
callParseTimeLiteral ==
    /\ last.kind = "none"
    /\ last' = [NoLast EXCEPT !.kind = "time", !.rule = expr,
                              !.secs = parseTimeLiteral(expr.json.v)]
    /\ UNCHANGED <<RELAY_VALUES, RELAY_RULES, sensors, enumRepr, loopIndex,
                   requests, passStart, passLog, expr, tasks>>

InitTime ==
    /\ RELAY_VALUES = [k \in Relays |-> FORCE_OFF_AUTO_X]
    /\ RELAY_RULES = [k \in Relays |-> Rule(eNOP)]
    /\ sensors \in SensorSnapshots
    /\ enumRepr \in EnumReprs
    /\ loopIndex = -1
    /\ requests = 0
    /\ passStart = RELAY_VALUES
    /\ passLog = <<>>
    /\ last = NoLast
    /\ expr \in {Rule(JStr(t)) : t \in TimeTexts}
    /\ tasks = NoTasks

NextTime == callParseTimeLiteral

TimeSpec == InitTime /\ [][NextTime]_vars

\* ------------------------------------------------------- coercion
\* Values given to asFloat and asInt.  A text is put together from five
\* parts: blanks, a sign, a whole part (digits, or a word for infinity), a
\* fraction, and what follows; expr holds the value together with the parts
\* its text was made of.  The other values are one of each remaining kind.
LeadTexts == {<<>>, <<" ">>}

SignTexts == {<<>>, <<"-">>, <<"+">>}

\* The whole parts made of digits, with the number each one writes.
WholeNumbers ==
    (<<"0">> :> 0) @@ (<<"7">> :> 7) @@ (<<"2", "5">> :> 25)
    @@ (<<"1", "2", "3">> :> 123)

InfinityTexts == {sInf, sInfinity}

WholeTexts == DOMAIN WholeNumbers \cup InfinityTexts \cup {<<>>}

FractionTexts == {<<>>, <<".">>, <<".", "0">>, <<".", "5">>}

TailTexts == {<<>>, <<" ">>, <<"a">>, <<"a", "b", "c">>, <<"-">>}

TextParts ==
    [lead : LeadTexts, sign : SignTexts, whole : WholeTexts,
     fraction : FractionTexts, tail : TailTexts]

textOf(parts) ==
    parts.lead \o parts.sign \o parts.whole \o parts.fraction \o parts.tail

NoParts == [lead |-> <<>>, sign |-> <<>>, whole |-> <<>>, fraction |-> <<>>, tail |-> <<>>]

CoerceInputs ==
    {[val |-> StringValue(textOf(parts)), parts |-> parts] : parts \in TextParts}
    \cup {[val |-> v, parts |-> NoParts] :
             v \in {createError("UNREC_STR_ERROR"), createVoid, createActuator(0),
                    FloatValue(25 * FloatUnit + FloatUnit \div 2),
                    FloatValue(-(3 * FloatUnit + FloatUnit \div 2)),
                    IntValue(42), IntValue(-7)}}

\* float f = value.asFloat();
callAsFloat ==
    /\ last.kind = "none"
    /\ last' = [kind |-> "asFloat", val |-> expr.val, parts |-> expr.parts,
                out |-> asFloat(expr.val)]
    /\ UNCHANGED <<RELAY_VALUES, RELAY_RULES, sensors, enumRepr, loopIndex,
                   requests, passStart, passLog, expr, tasks>>

\* int n = value.asInt();
callAsInt ==
    /\ last.kind = "none"
    /\ \E out \in asInt(expr.val) :
          last' = [kind |-> "asInt", val |-> expr.val, parts |-> expr.parts,
                   out |-> out]
    /\ UNCHANGED <<RELAY_VALUES, RELAY_RULES, sensors, enumRepr, loopIndex,
                   requests, passStart, passLog, expr, tasks>>

InitCoerce ==
    /\ RELAY_VALUES = [k \in Relays |-> FORCE_OFF_AUTO_X]
    /\ RELAY_RULES = [k \in Relays |-> Rule(eNOP)]
    /\ sensors \in SensorSnapshots
    /\ enumRepr \in EnumReprs
    /\ loopIndex = -1
    /\ requests = 0
    /\ passStart = RELAY_VALUES
    /\ passLog = <<>>
    /\ last = NoLast
    /\ expr \in CoerceInputs
    /\ tasks = NoTasks

NextCoerce ==
    \/ callAsFloat
    \/ callAsInt

CoerceSpec == InitCoerce /\ [][NextCoerce]_vars

\* ------------------------------------------------------- two tasks
\* The handlers registered with the AsyncWebServer (server.on) are called by
\* the task of the server, never from loop(); loop() calls
\* controlPeripheralsLoop, which calls lightSwitchLoop.  Both write
\* RELAY_VALUES and nothing orders one task's statements against the
\* other's: a task moves one access of RELAY_VALUES at a time.
\* The handler is POST /relays: it stores the posted values and calls
\* processRelayRules, whose setRelay calls read the array element into the
\* local currentValue and write it back in a later statement.
\* The relay the wall switch drives, as an index of the relay array.
SUNROOM_LIGHTS_RELAY == RelayCount - 1

\* Rules without SET: a rule that returns Void and rules that return a
\* number, for which the loop calls the relay's setter.
TaskRules == {Rule(eNOP), Rule(JInt(0)), Rule(JInt(1))}

\* The value setRelay writes back, from the value it read.
setRelayNewValue(currentValue, value, repr) ==
    castRelayValue((floatToInt(value) * 10) + CRem(currentValue, 10), repr)

\* The call setRelay(i, 2) that begins iteration i of the loop of
\* processRelayRules, or the return of processRelayRules after the last one.
beginIteration(i) ==
    IF i < RelayCount
    THEN [pc |-> "setRelay_read", index |-> i, value |-> DONT_CARE_VALUE * FloatUnit,
          src |-> "reset", currentValue |-> 0]
    ELSE NoTasks.async_tcp

\* setRelays up to its call of processRelayRules.
handleSetRelays ==
    /\ tasks.async_tcp.pc = "idle"
    /\ requests < MaxRequests
    /\ \E i \in Relays, value \in OperatorValues :
          RELAY_VALUES' = [RELAY_VALUES EXCEPT ![i] = value]
    /\ requests' = requests + 1
    /\ loopIndex' = 0
    /\ tasks' = [tasks EXCEPT !.async_tcp = beginIteration(0)]
    /\ UNCHANGED <<RELAY_RULES, sensors, enumRepr, passStart, passLog, last, expr>>

\* RelayValue currentValue = RELAY_VALUES[index];
setRelayRead ==
    /\ tasks.async_tcp.pc = "setRelay_read"
    /\ tasks' = [tasks EXCEPT !.async_tcp.pc = "setRelay_write",
                              !.async_tcp.currentValue = RELAY_VALUES[tasks.async_tcp.index]]
    /\ UNCHANGED <<RELAY_VALUES, RELAY_RULES, sensors, enumRepr, loopIndex,
                   requests, passStart, passLog, last, expr>>

\* RELAY_VALUES[index] = static_cast<RelayValue>(newValue); and the loop of
\* processRelayRules up to its next call of setRelay: after the reset the
\* rule is evaluated and a number is given to the relay's setter, after that
\* the loop goes on with the next index.
setRelayWrite ==
    /\ tasks.async_tcp.pc = "setRelay_write"
    /\ \E t \in {tasks.async_tcp} :
        /\ RELAY_VALUES' = [RELAY_VALUES EXCEPT ![t.index] =
                               setRelayNewValue(t.currentValue, t.value, enumRepr)]
        /\ \E parsed \in {deserializeJson(RELAY_RULES[t.index])} :
           \E r \in {IF parsed.error THEN createVoid
                      ELSE processRuleCore(parsed.doc, <<>>,
                               machine(RELAY_VALUES', sensors, enumRepr)).val} :
              IF t.src = "reset" /\ r.type = "FLOAT_TYPE"
              THEN /\ tasks' = [tasks EXCEPT !.async_tcp =
                                   [pc |-> "setRelay_read", index |-> t.index,
                                    value |-> r.n, src |-> "auto", currentValue |-> 0]]
                   /\ UNCHANGED loopIndex
              ELSE /\ tasks' = [tasks EXCEPT !.async_tcp = beginIteration(t.index + 1)]
                   /\ loopIndex' = IF t.index + 1 < RelayCount THEN t.index + 1 ELSE -1
    /\ UNCHANGED <<RELAY_RULES, sensors, enumRepr, requests, passStart, passLog,
                   last, expr>>

\* lightSwitchLoop up to its read of the relay: the switch has moved.
lightSwitchLoopRead ==
    /\ tasks.loopTask.pc = "idle"
    /\ \E switchV \in {0, 1} :
        /\ switchV # sensors.IS_SWITCH_ON
        /\ tasks' = [tasks EXCEPT !.loopTask =
                        [pc |-> "switch", switchV |-> switchV,
                         sunroomV |-> RELAY_VALUES[SUNROOM_LIGHTS_RELAY] # 0]]
    /\ UNCHANGED <<RELAY_VALUES, RELAY_RULES, sensors, enumRepr, loopIndex,
                   requests, passStart, passLog, last, expr>>

\* turnOnRelay or turnOffRelay, and IS_SWITCH_ON = switchV.
lightSwitchLoopWrite ==
    /\ tasks.loopTask.pc = "switch"
    /\ \E t \in {tasks.loopTask} :
        /\ RELAY_VALUES' =
              IF t.switchV = 1 /\ ~t.sunroomV
              THEN [RELAY_VALUES EXCEPT ![SUNROOM_LIGHTS_RELAY] = 1]
              ELSE IF t.switchV = 0 /\ t.sunroomV
              THEN [RELAY_VALUES EXCEPT ![SUNROOM_LIGHTS_RELAY] = 0]
              ELSE RELAY_VALUES
        /\ sensors' = [sensors EXCEPT !.IS_SWITCH_ON = t.switchV]
    /\ tasks' = [tasks EXCEPT !.loopTask = NoTasks.loopTask]
    /\ UNCHANGED <<RELAY_RULES, enumRepr, loopIndex, requests, passStart,
                   passLog, last, expr>>

InitTask ==
    /\ RELAY_VALUES \in [Relays -> StoredValues]
    /\ RELAY_RULES \in [Relays -> TaskRules]
    /\ sensors \in SensorSnapshots
    /\ enumRepr \in EnumReprs
    /\ loopIndex = -1
    /\ requests = 0
    /\ passStart = RELAY_VALUES
    /\ passLog = <<>>
    /\ last = NoLast
    /\ expr = BadRule
    /\ tasks = NoTasks

NextTask ==
    \/ handleSetRelays
    \/ setRelayRead
    \/ setRelayWrite
    \/ lightSwitchLoopRead
    \/ lightSwitchLoopWrite

TaskSpec == InitTask /\ [][NextTask]_vars

\* ------------------------------------------------------- reading the logs
RECURSIVE docAt(_, _)
docAt(doc, path) ==
    IF path = <<>> THEN doc
    ELSE docAt(doc.v[Head(path) + 1], Tail(path))

isPrefix(p, q) == Len(p) <= Len(q) /\ SubSeq(q, 1, Len(p)) = p

isCallOf(doc, name) ==
    doc.j = "array" /\ doc.v # <<>> /\ doc.v[1] = JStr(name)

\* Completed evaluations of the sub-expression at path p, of any
\* sub-expression at or below p, and the SET invocations at or below p.
evaluatedAt(p) == {k \in DOMAIN last.trace : last.trace[k].path = p}

evaluatedUnder(p) == {k \in DOMAIN last.trace : isPrefix(p, last.trace[k].path)}

setCallsUnder(p) ==
    {k \in DOMAIN last.calls :
        last.calls[k].src = "SET" /\ isPrefix(p, last.calls[k].path)}

valueAt(p) == last.trace[CHOOSE k \in evaluatedAt(p) : TRUE].val

Evaluated == last.kind # "none" /\ ~last.parseError

\* The evaluated calls of function name with size elements.
callsOf(name, size) ==
    {k \in DOMAIN last.trace :
        LET e == docAt(last.rule.json, last.trace[k].path)
        IN  isCallOf(e, name) /\ Len(e.v) = size}

\* ------------------------------------------------------- properties
\* C1: every evaluated IF call of four elements whose condition is
\* numeric evaluates exactly one branch, the then-branch iff the condition
\* is > 0; nothing at or below the other branch is evaluated, no SET below
\* it invokes a setter, and the value of the IF is the value of the branch
\* taken.
C1_SingleBranchIF ==
    Evaluated =>
      \A k \in callsOf(nIF, 4) :
        LET p == last.trace[k].path
        IN  /\ Cardinality(evaluatedAt(Append(p, 1))) = 1
            /\ isNumericType(valueAt(Append(p, 1))) =>
                 LET taken   == IF asFloat(valueAt(Append(p, 1))) > 0 THEN 2 ELSE 3
                     untaken == 5 - taken
                 IN  /\ Cardinality(evaluatedAt(Append(p, taken))) = 1
                     /\ evaluatedUnder(Append(p, untaken)) = {}
                     /\ setCallsUnder(Append(p, untaken)) = {}
                     /\ last.trace[k].val = valueAt(Append(p, taken))

\* The IF of the specification's example: the condition is true, both
\* branches are SETs on relay_0, and one setter call (value 1) was made.
C1_Witness ==
    /\ last.kind = "eval"
    /\ last.rule.json = eIF(JInt(1), eSET(0, JInt(1)), eSET(0, JInt(99)))
    /\ Len(last.calls) = 1
    /\ last.calls[1].value = FloatUnit
    /\ last.result = createVoid
    /\ autoIntent(RELAY_VALUES[0]) = 1

\* C2: every evaluated AND call of three elements whose first operand is
\* numeric and <= 0 has the value Float(0), and nothing at or below its
\* second operand is evaluated and no SET below it invokes a setter.
C2_AndShortCircuit ==
    Evaluated =>
      \A k \in callsOf(nAND, 3) :
        LET p == last.trace[k].path
        IN  /\ Cardinality(evaluatedAt(Append(p, 1))) = 1
            /\ (isNumericType(valueAt(Append(p, 1))) /\ asFloat(valueAt(Append(p, 1))) <= 0) =>
                 /\ last.trace[k].val = FloatValue(0)
                 /\ evaluatedUnder(Append(p, 2)) = {}
                 /\ setCallsUnder(Append(p, 2)) = {}

\* The AND of the specification's example: a false comparison, then an
\* unknown function.
C2_Witness ==
    /\ last.kind = "eval"
    /\ last.rule.json = Call(nAND, <<eTempAbove(1000), eUnknown>>)
    /\ last.result = FloatValue(0)
    /\ Len(last.trace) = 4

\* C3: every evaluated OR call of three elements whose first operand is
\* numeric and > 0 has the value Float(1) and nothing at or below its second
\* operand is evaluated, no SET below it invokes a setter; when the first
\* operand is numeric and <= 0 the second operand is evaluated exactly once.
C3_OrShortCircuit ==
    Evaluated =>
      \A k \in callsOf(nOR, 3) :
        LET p == last.trace[k].path
        IN  /\ Cardinality(evaluatedAt(Append(p, 1))) = 1
            /\ (isNumericType(valueAt(Append(p, 1))) /\ asFloat(valueAt(Append(p, 1))) > 0) =>
                 /\ last.trace[k].val = FloatValue(FloatUnit)
                 /\ evaluatedUnder(Append(p, 2)) = {}
                 /\ setCallsUnder(Append(p, 2)) = {}
            /\ (isNumericType(valueAt(Append(p, 1))) /\ asFloat(valueAt(Append(p, 1))) <= 0) =>
                 Cardinality(evaluatedAt(Append(p, 2))) = 1

\* An OR whose first operand is true and whose second operand is a SET: no
\* setter call, and the relays are as they were.
C3_Witness ==
    /\ last.kind = "eval"
    /\ last.rule.json = Call(nOR, <<JInt(1), eSET(0, JInt(1))>>)
    /\ last.result = FloatValue(FloatUnit)
    /\ last.calls = <<>>
    /\ RELAY_VALUES = last.pre

\* The setter calls the driver itself made in the last loop iteration.
driverCalls(src) == {k \in DOMAIN last.calls : last.calls[k].src = src}

\* The SET invocations of the last evaluation on relay index.
setCallsOn(index) ==
    {k \in DOMAIN last.calls : last.calls[k].src = "SET" /\ last.calls[k].index = index}

Stepped == last.kind = "step"

C5_ResetThenVoidLeavesDontCare ==
    Stepped =>
        /\ last.calls # <<>>
        /\ last.calls[1].src = "reset"
        /\ last.calls[1].index = last.i
        /\ last.calls[1].value = DONT_CARE_VALUE * FloatUnit
        /\ last.calls[1].before = last.pre[last.i]
        /\ (~last.parseError /\ last.result.type = "VOID_TYPE" /\ setCallsOn(last.i) = {}) =>
              autoIntent(RELAY_VALUES[last.i]) = DONT_CARE_VALUE

\* C6: when rule i evaluates to a value that is not numeric, the driver
\* makes no setter call after the evaluation: the relays are as the
\* evaluation left them, and relay_i holds what the reset wrote or what the
\* last SET on relay_i inside the rule wrote.
C6_NoControlOnNonNumeric ==
    (Stepped /\ ~last.parseError /\ ~isNumericType(last.result)) =>
        /\ driverCalls("auto") = {}
        /\ driverCalls("reset") = {1}
        /\ RELAY_VALUES = last.afterEval
        /\ RELAY_VALUES[last.i] =
              IF setCallsOn(last.i) = {} THEN last.afterReset[last.i]
              ELSE last.calls[CHOOSE k \in setCallsOn(last.i) :
                                 \A l \in setCallsOn(last.i) : l <= k].after

\* A rule for relay_1 that SETs relay_1 on and then fails: the relay keeps
\* the auto-on the SET wrote.
C6_Witness ==
    /\ Stepped
    /\ last.i = 1
    /\ last.rule.json = Call(nGT, <<eSET(1, JInt(1)), eUnknown>>)
    /\ last.result.type = "ERROR_TYPE"
    /\ Cardinality(setCallsOn(1)) = 1
    /\ autoIntent(RELAY_VALUES[1]) = 1

\* The relays a whole pass over rules leaves, started from passStart.
passOutcome(rules) ==
    processRuleSet(rules, RelayCount, machine(passStart, sensors, enumRepr)).relays

PassDone == loopIndex >= RelayCount

\* C7: at the end of a pass every rule has had its iteration, and for
\* every rule i that evaluated to an error and every other relay j that
\* rule i executed no SET on, relay_j holds what it would hold had rule i
\* been ["NOP"].
C7_ErrorIsolation ==
    PassDone =>
      /\ Len(passLog) = RelayCount
      /\ \A i \in Relays :
        LET it == passLog[i + 1]
        IN  (~it.parseError /\ it.result.type = "ERROR_TYPE") =>
              \A alt \in {passOutcome([RELAY_RULES EXCEPT ![i] = Rule(eNOP)])} :
                 \A j \in (Relays \ {i}) \ it.setOn : RELAY_VALUES[j] = alt[j]

\* Rule 0 fails, rule 1 is the temperature rule on the warm snapshot, and
\* relay_1 ends the pass at auto-on.
C7_Witness ==
    /\ PassDone
    /\ RELAY_RULES[0] = Rule(eUnknown)
    /\ RELAY_RULES[1] = Rule(eTempAbove(25))
    /\ sensors.CURRENT_TEMPERATURE > 25 * FloatUnit
    /\ autoIntent(RELAY_VALUES[1]) = 1

\* C8: when rules[i] does not parse, nothing is evaluated, the reset is the
\* only setter call, the loop goes on with i + 1, and the auto-intent of
\* relay_i is 2 after the iteration.
C8_UnparseableRuleSkipped ==
    (Stepped /\ last.parseError) =>
        /\ last.trace = <<>>
        /\ Len(last.calls) = 1
        /\ last.calls[1].src = "reset"
        /\ loopIndex = last.i + 1
        /\ autoIntent(RELAY_VALUES[last.i]) = DONT_CARE_VALUE

\* C9: every setter call of an iteration leaves the ones digit of the
\* stored value as it was.
C9_ForceDigitUnchanged ==
    Stepped =>
        \A k \in DOMAIN last.calls :
            forceDigit(last.calls[k].after) = forceDigit(last.calls[k].before)

\* C10: every setter call of an iteration has the argument 0, 1 or 2, and
\* the tens digit of every stored relay value is 0, 1 or 2.
C10_SetterArgumentsAndTensDigit ==
    /\ Stepped =>
          \A k \in DOMAIN last.calls :
              last.calls[k].value \in {0, FloatUnit, 2 * FloatUnit}
    /\ \A k \in Relays : autoIntent(RELAY_VALUES[k]) \in {0, 1, 2}

\* The function names registerCoreFunctions registers.
CoreNames == DOMAIN registerCoreFunctions(EmptyRegistry)

\* The operands of the call at path p that were evaluated and gave an Error.
errorOperands(p) ==
    {j \in 1 .. (Len(docAt(last.rule.json, p).v) - 1) :
        /\ evaluatedAt(Append(p, j)) # {}
        /\ valueAt(Append(p, j)).type = "ERROR_TYPE"}

ownSetCalls(p) ==
    {c \in DOMAIN last.calls : last.calls[c].src = "SET" /\ last.calls[c].path = p}

\* C12: every evaluated SET call of three elements evaluates both operands
\* exactly once.  If the first is an Actuator and the second is numeric, the
\* call invokes that actuator's setter exactly once with the numeric value of
\* the second operand and its value is Void.  Otherwise it invokes no setter
\* and its value is the first operand's Error, else the second operand's
\* Error, else BOOL_ACTUATOR_ERROR.
C12_SetInvokesSetterIffWellTyped ==
    Evaluated =>
      \A k \in callsOf(nSET, 3) :
        LET p == last.trace[k].path
        IN  /\ Cardinality(evaluatedAt(Append(p, 1))) = 1
            /\ Cardinality(evaluatedAt(Append(p, 2))) = 1
            /\ LET act == valueAt(Append(p, 1))
                   val == valueAt(Append(p, 2))
               IN  IF act.type = "ACTUATOR_TYPE" /\ isNumericType(val)
                   THEN /\ Cardinality(ownSetCalls(p)) = 1
                        /\ \A c \in ownSetCalls(p) :
                              /\ last.calls[c].index = act.fn[1]
                              /\ last.calls[c].value = asFloat(val)
                        /\ last.trace[k].val = createVoid
                   ELSE /\ ownSetCalls(p) = {}
                        /\ last.trace[k].val =
                              IF act.type = "ERROR_TYPE" THEN act
                              ELSE IF val.type = "ERROR_TYPE" THEN val
                              ELSE createError("BOOL_ACTUATOR_ERROR")

\* A SET of 1.5 on relay_0: one setter call on index 0 with 1.5, value Void.
C12_Witness ==
    /\ last.kind = "eval"
    /\ last.rule.json = Call(nSET, <<JStr(relayName(0)), JFloat(3)>>)
    /\ Len(last.calls) = 1
    /\ last.calls[1].index = 0
    /\ last.calls[1].value = 3
    /\ last.calls[1].path = <<>>
    /\ last.result = createVoid

\* The evaluated calls of three elements of the ordering comparisons.
orderingCalls ==
    callsOf(nGT, 3) \cup callsOf(nLT, 3) \cup callsOf(nGTE, 3) \cup callsOf(nLTE, 3)

\* What the comparison named name says of the numbers x and y.
ordering(name, x, y) ==
    IF name = nGT THEN x > y
    ELSE IF name = nLT THEN x < y
    ELSE IF name = nGTE THEN x >= y
    ELSE x <= y

\* C13: every evaluated GT, LT, GTE or LTE call of three elements evaluates
\* both operands exactly once.  If both values are Float or Int, in any mix,
\* the value of the call is Float(1) when the named comparison holds of
\* their numeric values and Float(0) when it does not.  If neither value is
\* an Error and one of them is a String, a Void or an Actuator, the value of
\* the call is COMPARISON_TYPE_ERROR.
C13_OrderingComparison ==
    Evaluated =>
      \A k \in orderingCalls :
        LET p == last.trace[k].path
        IN  /\ Cardinality(evaluatedAt(Append(p, 1))) = 1
            /\ Cardinality(evaluatedAt(Append(p, 2))) = 1
            /\ LET a    == valueAt(Append(p, 1))
                   b    == valueAt(Append(p, 2))
                   name == docAt(last.rule.json, p).v[1].v
                   nums == {"FLOAT_TYPE", "INT_TYPE"}
                   rest == {"STRING_TYPE", "VOID_TYPE", "ACTUATOR_TYPE"}
               IN  /\ (a.type \in nums /\ b.type \in nums) =>
                        last.trace[k].val =
                          IF ordering(name, asFloat(a), asFloat(b))
                          THEN FloatValue(FloatUnit) ELSE FloatValue(0)
                   /\ (a.type # "ERROR_TYPE" /\ b.type # "ERROR_TYPE"
                         /\ (a.type \in rest \/ b.type \in rest)) =>
                        last.trace[k].val = createError("COMPARISON_TYPE_ERROR")

\* An Int against a Float: count (Int 42) is greater than 25.5.
C13_Witness ==
    /\ last.kind = "eval"
    /\ last.rule.json = Call(nGT, <<JStr(sCount), JStr(sTemperature)>>)
    /\ valueAt(<<1>>) = IntValue(42)
    /\ valueAt(<<2>>).type = "FLOAT_TYPE"
    /\ last.result = FloatValue(FloatUnit)

evaluatedBelow(p) == {k \in evaluatedUnder(p) : last.trace[k].path # p}

readsAt(p) == {c \in DOMAIN last.reads : last.reads[c].path = p}

\* The global a sensor function reports, as a float.
sensorGlobal(name) ==
    IF name = ngetTemperature THEN sensors.CURRENT_TEMPERATURE
    ELSE IF name = ngetHumidity THEN sensors.CURRENT_HUMIDITY
    ELSE IF name = ngetPhotoSensor THEN sensors.LIGHT_LEVEL
    ELSE IF name = ngetLightSwitch THEN sensors.IS_SWITCH_ON * FloatUnit
    ELSE sensors.seconds * FloatUnit

\* C16: every evaluated call of a sensor function whose array has an
\* element besides the name has the value UNREC_FUNC_ERROR, reads no sensor,
\* evaluates none of the extra elements and invokes no setter below it;
\* every evaluated call whose array is the name alone reads the sensor once
\* and has the Float value of the sensor's global.
C16_SensorCallArity ==
    Evaluated =>
      \A k \in DOMAIN last.trace :
        LET p == last.trace[k].path
            e == docAt(last.rule.json, p)
        IN  (e.j = "array" /\ e.v # <<>> /\ e.v[1].j = "string" /\ e.v[1].v \in SensorNames) =>
              IF Len(e.v) # 1
              THEN /\ last.trace[k].val = createError("UNREC_FUNC_ERROR")
                   /\ readsAt(p) = {}
                   /\ evaluatedBelow(p) = {}
                   /\ setCallsUnder(p) = {}
              ELSE /\ last.trace[k].val = FloatValue(sensorGlobal(e.v[1].v))
                   /\ Cardinality(readsAt(p)) = 1

\* getTemperature with a SET as an extra element: UNREC_FUNC_ERROR, nothing
\* read, the SET not evaluated, the relays as they were.
C16_Witness ==
    /\ last.kind = "eval"
    /\ last.rule.json = Call(ngetTemperature, <<eSET(0, JInt(1))>>)
    /\ last.result = createError("UNREC_FUNC_ERROR")
    /\ last.reads = <<>>
    /\ Len(last.trace) = 1
    /\ RELAY_VALUES = last.pre

\* A text of the form @HH:MM:SS with HH in 00..23, MM and SS in 00..59.
wellFormedTime(t) ==
    /\ Len(t) = 9
    /\ t[1] = "@" /\ t[4] = ":" /\ t[7] = ":"
    /\ \A k \in {2, 3, 5, 6, 8, 9} :
          t[k] \in {"0", "1", "2", "3", "4", "5", "6", "7", "8", "9"}
    /\ digitValue(t[2]) * 10 + digitValue(t[3]) \in 0 .. 23
    /\ digitValue(t[5]) * 10 + digitValue(t[6]) \in 0 .. 59
    /\ digitValue(t[8]) * 10 + digitValue(t[9]) \in 0 .. 59

WellFormedTimeTexts == {t \in TimeTexts : wellFormedTime(t)}

\* C17: parseTimeLiteral of a well-formed text is hours * 3600 + minutes *
\* 60 + seconds, a number in 0 .. 86399 that no other well-formed text
\* gives; parseTimeLiteral of any other text is -1.
C17_ParseTimeLiteral ==
    last.kind = "time" =>
      LET t == last.rule.json.v
      IN  IF wellFormedTime(t)
          THEN /\ last.secs = (digitValue(t[2]) * 10 + digitValue(t[3])) * 3600
                                + (digitValue(t[5]) * 10 + digitValue(t[6])) * 60
                                + (digitValue(t[8]) * 10 + digitValue(t[9]))
               /\ last.secs \in 0 .. 86399
               /\ \A u \in WellFormedTimeTexts :
                     u # t => parseTimeLiteral(u) # last.secs
          ELSE last.secs = -1

\* The last second of the day.
C17_Witness ==
    /\ last.kind = "time"
    /\ last.rule.json.v = <<"@", "2", "3", ":", "5", "9", ":", "5", "9">>
    /\ last.secs = 86399

\* C18: every evaluated string literal that begins with '@', alone or as
\* an operand, has the value parseTimeLiteral gives it as a number, or
\* TIME_ERROR when parseTimeLiteral rejects it, also when the environment
\* knows a value of that name; every evaluated string literal that does not
\* begin with '@' has the value of actuator resolution, else of value
\* resolution, else UNREC_STR_ERROR, also when its text without an '@' is a
\* time of day.
C18_TimeLiteralsOnly ==
    Evaluated =>
      \A k \in DOMAIN last.trace :
        LET e   == docAt(last.rule.json, last.trace[k].path)
            res == last.trace[k].val
        IN  e.j = "string" =>
              IF e.v # <<>> /\ e.v[1] = "@"
              THEN IF parseTimeLiteral(e.v) >= 0
                   THEN /\ res.type \in {"FLOAT_TYPE", "INT_TYPE"}
                        /\ asFloat(res) = parseTimeLiteral(e.v) * FloatUnit
                   ELSE res = createError("TIME_ERROR")
              ELSE res = IF tryGetActuator(e.v).found
                         THEN createActuator(tryGetActuator(e.v).index)
                         ELSE IF e.v \in DOMAIN TestValues THEN TestValues[e.v]
                         ELSE createError("UNREC_STR_ERROR")

\* An invalid time literal whose text the environment knows as a value,
\* as the operand of a comparison: the operand, and so the comparison, is
\* TIME_ERROR.
C18_Witness ==
    /\ last.kind = "eval"
    /\ last.rule.json = Call(nEQ, <<JStr(sTime2500), JInt(0)>>)
    /\ sTime2500 \in DOMAIN TestValues
    /\ valueAt(<<1>>) = createError("TIME_ERROR")
    /\ last.result = createError("TIME_ERROR")

\* C19: after a rule has been executed twice in a row with the sensors
\* unchanged, the second result is the first result and the relays after
\* the second execution are the relays after the first.
C19_SecondEvaluationSame ==
    last.kind = "again" =>
      /\ last.result = last.prev
      /\ last.afterEval = last.pre

\* The relay array after the setter calls of a call log, made in order.
RECURSIVE replayCalls(_, _)
replayCalls(relays, calls) ==
    IF calls = <<>> THEN relays
    ELSE replayCalls(setRelay(relays, enumRepr, Head(calls).index, Head(calls).value),
                     Tail(calls))

\* An iteration handles the index after the last one, on the array the
\* iteration before left, and leaves what its setter calls produce.
iterationInOrder ==
    loopIndex \in Relays =>
        /\ loopIndex' = loopIndex + 1
        /\ last'.i = loopIndex
        /\ last'.pre = RELAY_VALUES
        /\ RELAY_VALUES' = replayCalls(RELAY_VALUES, last'.calls)

\* C20: during a pass the rules handled so far are the indices 0, 1, ...
\* in this order, each once; each iteration handles the index that follows
\* the last one, starts from the relay array as the iteration before left
\* it and leaves the array that its setter calls (reset, SETs, automatic
\* control), made in order on that array, produce; a pass that has started
\* gets to the end of the rules with every index handled, and returns.
C20_PassHandlesEachRuleOnce ==
    /\ [](loopIndex \in 0 .. RelayCount =>
            /\ Len(passLog) = loopIndex
            /\ \A k \in DOMAIN passLog : passLog[k].i = k - 1)
    /\ [][iterationInOrder]_vars
    /\ (loopIndex = 0) ~> (loopIndex = RelayCount /\ Len(passLog) = RelayCount)
    /\ (loopIndex = RelayCount) ~> (loopIndex = -1)

\* Rule 0 set relay_1, and the iteration of rule 1 started from the array
\* with that write in it; the pass is at its end with every rule handled.
C20_Witness ==
    /\ loopIndex = RelayCount
    /\ Len(passLog) = RelayCount
    /\ last.kind = "step"
    /\ last.i = RelayCount - 1
    /\ last.pre # passStart
    /\ Len(last.calls) >= 1
    /\ RELAY_VALUES = replayCalls(last.pre, last.calls)

\* C21: the relay array is written from one task only: while setRelay holds
\* the value it read from RELAY_VALUES[index] and has not yet written back,
\* the element still has that value (no other write came between).
C21_NoWriteBetweenReadAndWriteBack ==
    tasks.async_tcp.pc = "setRelay_write" =>
        RELAY_VALUES[tasks.async_tcp.index] = tasks.async_tcp.currentValue

\* What a text put together from parts writes, told from the parts: a number
\* (digits with or without a fraction, or a fraction alone) or an infinity,
\* with nothing after it.
isNumber(parts) ==
    /\ parts.tail = <<>>
    /\ \/ parts.whole \in DOMAIN WholeNumbers
       \/ parts.whole = <<>> /\ parts.fraction \in {<<".", "0">>, <<".", "5">>}

isInfinity(parts) ==
    parts.tail = <<>> /\ parts.whole \in InfinityTexts /\ parts.fraction = <<>>

numberOf(parts) ==
    (IF parts.sign = <<"-">> THEN -1 ELSE 1)
    * (IF parts.whole \in InfinityTexts THEN INFINITY
       ELSE (IF parts.whole = <<>> THEN 0 ELSE WholeNumbers[parts.whole]) * FloatUnit
            + (IF parts.fraction = <<".", "5">> THEN FloatUnit \div 2 ELSE 0))

hasNonNumericSuffix(parts) == parts.tail \in {<<"a">>, <<"a", "b", "c">>, <<"-">>}

hasTrailingBlank(text) == text # <<>> /\ text[Len(text)] = " "

hasNoDigit(text) == \A k \in DOMAIN text : ~isDigit(text[k])

truncatedOf(parts) ==
    (IF parts.sign = <<"-">> THEN -1 ELSE 1)
    * (IF parts.whole = <<>> THEN 0 ELSE WholeNumbers[parts.whole])

andOrCalls == callsOf(nAND, 3) \cup callsOf(nOR, 3)

RECURSIVE containsSET(_)
containsSET(doc) ==
    /\ doc.j = "array"
    /\ \/ isCallOf(doc, nSET)
       \/ \E k \in DOMAIN doc.v : containsSET(doc.v[k])

\* C26: the evaluation of an expression without a SET call invokes no
\* setter and leaves the relay array as it was, whatever its result; no
\* evaluation changes the sensor values.
C26_NoSetNoEffect ==
    /\ [](last.kind \in {"eval", "again"} /\ ~last.parseError
             /\ ~containsSET(last.rule.json)
          => /\ last.calls = <<>>
             /\ last.afterEval = last.pre
             /\ RELAY_VALUES = last.pre)
    /\ [][sensors' = sensors]_vars

\* A comparison of an actuator name with a number was evaluated: the name
\* was resolved to an Actuator, the result is an Error, and the relays are
\* as before.
C26_Witness ==
    /\ last.kind = "eval"
    /\ last.rule.json = Call(nGT, <<JStr(relayName(0)), JInt(1)>>)
    /\ valueAt(<<1>>) = createActuator(0)
    /\ last.result = createError("COMPARISON_TYPE_ERROR")
    /\ last.calls = <<>>
    /\ RELAY_VALUES = last.pre


\* C27: an evaluated call of a built-in operator with the wrong number of
\* elements (comparisons, AND, OR, SET other than 3; NOT other than 2; IF
\* other than 4) has its own error code as its value, and nothing below it
\* is evaluated: no SET below it invokes a setter and no Error of an
\* element becomes its value. An evaluated NOP call has the value Void and
\* nothing below it is evaluated, whatever its number of elements.
arityOf(name) == IF name = nNOT THEN 2 ELSE IF name = nIF THEN 4 ELSE 3

arityErrorOf(name) ==
    IF name \in ComparisonNames THEN createError("COMPARISON_TYPE_ERROR")
    ELSE IF name \in {nAND, nOR} THEN createError("AND_OR_ERROR")
    ELSE IF name = nSET THEN createError("BOOL_ACTUATOR_ERROR")
    ELSE IF name = nNOT THEN createError("NOT_ERROR")
    ELSE createError("IF_CONDITION_ERROR")

wrongArityCalls ==
    {k \in DOMAIN last.trace :
        \E name \in BinaryNames \cup {nNOT, nIF} :
            LET e == docAt(last.rule.json, last.trace[k].path)
            IN  isCallOf(e, name) /\ Len(e.v) # arityOf(name)}

nothingBelow(p) == evaluatedUnder(p) = evaluatedAt(p) /\ setCallsUnder(p) = {}

C27_WrongArity ==
    Evaluated =>
        /\ \A k \in wrongArityCalls :
              LET p == last.trace[k].path
              IN  /\ last.trace[k].val
                        = arityErrorOf(docAt(last.rule.json, p).v[1].v)
                  /\ nothingBelow(p)
        /\ \A size \in 1 .. 6 : \A k \in callsOf(nNOP, size) :
              /\ last.trace[k].val = createVoid
              /\ nothingBelow(last.trace[k].path)

\* A SET of four elements whose first two operands alone would be a valid
\* SET and whose last is a call that fails: BOOL_ACTUATOR_ERROR, no call.
C27_Witness ==
    /\ last.kind = "eval"
    /\ last.rule.json
          = Call(nSET, <<JStr(relayName(0)), JInt(1), eSET(RelayCount - 1, JInt(1))>>)
    /\ last.result = createError("BOOL_ACTUATOR_ERROR")
    /\ last.calls = <<>>
    /\ Len(last.trace) = 1
    /\ RELAY_VALUES = last.pre


\* C28: within one pass, when a rule i < j has invoked SET on relay_j, the
\* reset at the start of iteration j leaves relay_j with auto-intent 2, so
\* that the SET of rule i decides nothing about it; and a SET on relay_j
\* invoked by rule i > j stays: relay_j holds what the last such SET
\* stored when iteration i ends, and every later iteration that invokes no
\* SET on relay_j leaves relay_j as it was.
earlierSetOn(j) ==
    \E k \in 1 .. (Len(passLog) - 1) : passLog[k].i < j /\ j \in passLog[k].setOn

lastSetCallOn(j) ==
    last.calls[CHOOSE k \in setCallsOn(j) : \A l \in setCallsOn(j) : l <= k]

C28_LaterSetStays ==
    Stepped =>
        \A j \in 0 .. (last.i - 1) :
            IF setCallsOn(j) = {} THEN RELAY_VALUES[j] = last.pre[j]
            ELSE RELAY_VALUES[j] = lastSetCallOn(j).after

C28_EarlierSetOverwritten ==
    /\ (Stepped /\ earlierSetOn(last.i)) =>
            autoIntent(last.afterReset[last.i]) = DONT_CARE_VALUE
    /\ C28_LaterSetStays


\* C29: when a pass has ended, (1) the pass run from any array that
\* differs from the array the pass started from only in auto-intent digits
\* ends with the same auto-intent of every relay, and (2) a second pass
\* with the same rules and sensor values leaves every relay as the first
\* pass left it.
PassEnded == loopIndex >= RelayCount

passFrom(relays) ==
    processRuleSet(RELAY_RULES, RelayCount, machine(relays, sensors, enumRepr)).relays

\* The arrays with the force digits of relays and any auto-intent digits; a
\* value that is not an enumerator has no digits to vary.
otherAutoDigits(relays) ==
    {alt \in [Relays -> 0 .. RelayValueRangeMax \cup {relays[k] : k \in Relays}] :
        \A k \in Relays :
            IF relays[k] \in 0 .. RelayValueRangeMax
            THEN /\ forceDigit(alt[k]) = forceDigit(relays[k])
                 /\ autoIntent(alt[k]) \in 0 .. DONT_CARE_VALUE
            ELSE alt[k] = relays[k]}

C29_IndependentOfPriorAutoIntent ==
    PassEnded =>
        \A alt \in otherAutoDigits(passStart) : \A k \in Relays :
            autoIntent(passFrom(alt)[k]) = autoIntent(RELAY_VALUES[k])

C30_ActuatorIndexInRange ==
    Evaluated =>
        /\ \A k \in DOMAIN last.calls : last.calls[k].index \in Relays
        /\ \A k \in DOMAIN last.trace :
              last.trace[k].val.type = "ACTUATOR_TYPE" =>
                  /\ last.trace[k].val.fn[1] \in Relays
                  /\ docAt(last.rule.json, last.trace[k].path)
                        = JStr(relayName(last.trace[k].val.fn[1]))

=============================================================================
